---------------------------- MODULE Spec2Model ----------------------------
(***************************************************************************)
(* A model of nmea-web-serial: the sentence parser (src/parser), the       *)
(* packet cache and connection machine (src/core) and the stream reader.   *)
(*                                                                         *)
(* Text is a sequence of one-character strings, so that splitting,         *)
(* substring extraction and the checksum are computed as the code computes *)
(* them.  JavaScript's null/undefined are the string `null`; a packet's    *)
(* chxOk (true | undefined) is a BOOLEAN, FALSE standing for undefined.    *)
(***************************************************************************)
EXTENDS Integers, Sequences, FiniteSets, TLC

VARIABLES
    state,          \* snapshot.value of the nmea machine
    port,           \* context.port
    error,          \* context.error
    packets,        \* context.packets: sentence id -> packet
    data,           \* context.data
    enableLogging,  \* context.enableLogging
    baudRate,       \* context.baudRate
    allowedSentenceIds, \* config.allowedSentenceIds (fixed at creation)
    streamReader,   \* the invoked readNmeaStream actor
    session,        \* history: id -> last packet accepted in this connected session
    lastEvent,      \* history: the event of the machine's last transition
    sentence,       \* parser harness: the sentence under decode
    decoded,        \* parser harness: [strict, unsafe] results for `sentence`
    externalVariation, \* navigation config: options.externalVariation
    timeZone,       \* environment: the time zone of the JavaScript runtime
    status,         \* snapshot.status of the actor: "active" or "stopped"
    subscription,   \* NmeaClient.subscription (null without a client)
    called,         \* the client callbacks invoked by the latest step
    lineStream      \* the reader's line pipeline: text to come, container, lines

machineVars == <<state, port, error, packets, data, enableLogging, baudRate,
                 allowedSentenceIds, streamReader, session, lastEvent>>
parserVars == <<sentence, decoded>>
navVars == <<externalVariation, timeZone>>
clientVars == <<status, subscription, called>>
vars == <<state, port, error, packets, data, enableLogging, baudRate,
          allowedSentenceIds, streamReader, session, lastEvent, sentence,
          decoded, externalVariation, timeZone, status, subscription, called,
          lineStream>>

null == "<null>"

-----------------------------------------------------------------------------
(* Bounds of the model *)

\* Number of distinct data payloads a generated sentence may carry.
NumPayloads == 2

\* Length of the longest text piped through the LineBreakTransformer.
MaxTextLen == 5

-----------------------------------------------------------------------------
(* Text primitives (JavaScript String methods used by the parser) *)

CharCode ==
    "!" :> 33 @@ "$" :> 36 @@ "*" :> 42 @@ "," :> 44 @@ "-" :> 45 @@ "." :> 46 @@
    "0" :> 48 @@ "1" :> 49 @@ "2" :> 50 @@ "3" :> 51 @@ "4" :> 52 @@ "5" :> 53 @@
    "6" :> 54 @@ "7" :> 55 @@ "8" :> 56 @@ "9" :> 57 @@ "?" :> 63 @@ "A" :> 65 @@
    "B" :> 66 @@ "C" :> 67 @@ "D" :> 68 @@ "E" :> 69 @@ "F" :> 70 @@ "G" :> 71 @@
    "H" :> 72 @@ "I" :> 73 @@ "J" :> 74 @@ "K" :> 75 @@ "L" :> 76 @@ "M" :> 77 @@
    "N" :> 78 @@ "O" :> 79 @@ "P" :> 80 @@ "Q" :> 81 @@ "R" :> 82 @@ "S" :> 83 @@
    "T" :> 84 @@ "U" :> 85 @@ "V" :> 86 @@ "W" :> 87 @@ "X" :> 88 @@ "Y" :> 89 @@
    "Z" :> 90 @@ "a" :> 97 @@ "b" :> 98 @@ "c" :> 99 @@ "d" :> 100 @@ "e" :> 101 @@
    "f" :> 102

HexDigits == <<"0","1","2","3","4","5","6","7","8","9","A","B","C","D","E","F">>
LowerHexDigits == <<"0","1","2","3","4","5","6","7","8","9","a","b","c","d","e","f">>

\* The value of a hexadecimal digit, or -1 for any other character.
HexValue(c) ==
    IF \E i \in 1..16 : HexDigits[i] = c
    THEN (CHOOSE i \in 1..16 : HexDigits[i] = c) - 1
    ELSE IF \E i \in 1..16 : LowerHexDigits[i] = c
    THEN (CHOOSE i \in 1..16 : LowerHexDigits[i] = c) - 1
    ELSE 0 - 1

\* a ^ b on non-negative integers.
RECURSIVE BitXor(_, _)
BitXor(a, b) ==
    IF a = 0 /\ b = 0 THEN 0
    ELSE (((a % 2) + (b % 2)) % 2) + (2 * BitXor(a \div 2, b \div 2))

\* s.substr(start, len) with a 0-based start, clipped to the string.
Substr(s, start, len) ==
    LET first == start + 1
        last  == IF start + len > Len(s) THEN Len(s) ELSE start + len
    IN  IF first > Len(s) THEN <<>> ELSE SubSeq(s, first, last)

\* s.substr(start): everything from the 0-based index start.
SubstrFrom(s, start) == Substr(s, start, Len(s))

\* s.charAt(i) with a 0-based index: the empty string past the end.
CharAt(s, i) == IF i + 1 <= Len(s) THEN <<s[i + 1]>> ELSE <<>>

\* s.split(sep) for a one-character separator: the pieces between
\* consecutive separators, empty pieces kept.
Split(s, sep) ==
    LET seps == {i \in 1..Len(s) : s[i] = sep}
        n    == Cardinality(seps)
        \* position of the k-th separator; 0 before the text, Len(s) + 1 after
        pos(k) == IF k = 0 THEN 0
                  ELSE IF k > n THEN Len(s) + 1
                  ELSE CHOOSE p \in seps : Cardinality({q \in seps : q < p}) = k - 1
    IN  [k \in 1..(n + 1) |-> SubSeq(s, pos(k - 1) + 1, pos(k) - 1)]

\* parseInt(str, 16) on the alphabet of the model (no whitespace, sign or 0x
\* prefix): the value of the longest prefix of hex digits, NaN when that
\* prefix is empty.
RECURSIVE HexPrefixValue(_, _)
HexPrefixValue(str, acc) ==
    IF str = <<>> \/ HexValue(Head(str)) < 0 THEN acc
    ELSE HexPrefixValue(Tail(str), (acc * 16) + HexValue(Head(str)))

parseInt16(str) ==
    IF str = <<>> \/ HexValue(Head(str)) < 0 THEN [nan |-> TRUE]
    ELSE [nan |-> FALSE, value |-> HexPrefixValue(str, 0)]

-----------------------------------------------------------------------------
(* nmea-simple: helpers.ts, codecs/PacketStub.ts, index.ts *)

\* The XOR of the char codes of s[lo..hi] (0 for an empty range).
RECURSIVE XorRange(_, _, _)
XorRange(s, lo, hi) ==
    IF lo > hi THEN 0
    ELSE IF lo = hi THEN CharCode[s[lo]]
    ELSE LET mid == (lo + hi) \div 2
         IN  BitXor(XorRange(s, lo, mid), XorRange(s, mid + 1, hi))

\* computeNmeaChecksum: XOR of the char codes from index 1, masked to a byte
\* (charCodeAt(1) of a one-character string is NaN, which the mask turns to 0).
computeNmeaChecksum(sentenceWithoutChecksum) ==
    XorRange(sentenceWithoutChecksum, 2, Len(sentenceWithoutChecksum)) % 256

\* validNmeaChecksum: the text before the first "*" against the hex after it.
validNmeaChecksum(nmeaSentence) ==
    LET parts == Split(nmeaSentence, "*")
        \* checksumString is undefined without a "*": parseInt gives NaN
        actualChecksum == IF Len(parts) >= 2 THEN parseInt16(parts[2])
                                             ELSE [nan |-> TRUE]
    IN  /\ ~actualChecksum.nan
        /\ computeNmeaChecksum(parts[1]) = actualChecksum.value

\* parseStub(field0, chxOk)
parseStub(field0, chxOk) ==
    IF CharAt(field0, 1) = <<"P">>
    THEN [talkerId |-> <<"P">>, sentenceId |-> SubstrFrom(field0, 2), chxOk |-> chxOk]
    ELSE [talkerId |-> Substr(field0, 1, 2), sentenceId |-> SubstrFrom(field0, 3),
          chxOk |-> chxOk]

\* initStubFields(stub, id): the packet header a decoder starts from.
initStubFields(stub, id) ==
    [sentenceId |-> id, talkerId |-> stub.talkerId, chxOk |-> stub.chxOk]

APB == <<"A","P","B">>
BWC == <<"B","W","C">>
DBT == <<"D","B","T">>
DTM == <<"D","T","M">>
GGA == <<"G","G","A">>
GLL == <<"G","L","L">>
GNS == <<"G","N","S">>
GSA == <<"G","S","A">>
GST == <<"G","S","T">>
GSV == <<"G","S","V">>
HDG == <<"H","D","G">>
HDM == <<"H","D","M">>
HDT == <<"H","D","T">>
MWV == <<"M","W","V">>
RMC == <<"R","M","C">>
VHW == <<"V","H","W">>
VTG == <<"V","T","G">>
ZDA == <<"Z","D","A">>
DPT == <<"D","P","T">>
DBS == <<"D","B","S">>
DBK == <<"D","B","K">>
MTK == <<"M","T","K">>
RDID == <<"R","D","I","D">>
XYZ == <<"X","Y","Z">>
UnknownId == <<"?">>

\* The keys of nmea-simple's decoder table.
BuiltinIds == {APB, BWC, DBT, DTM, GGA, GLL, GNS, GSA, GST, GSV, HDG, HDM, HDT,
               MTK, MWV, RDID, RMC, VHW, VTG, ZDA}

\* A built-in decoder: header from the stub under the decoder's own id, the
\* data fields positionally.
decodeBuiltin(id, stub, fields) ==
    [sentenceId |-> id, talkerId |-> stub.talkerId,
     chxOk |-> stub.chxOk, dataFields |-> Tail(fields)]

\* codecs/UnknownPacket.decodeSentence
decodeUnknown(stub, fields) ==
    [sentenceId |-> UnknownId, talkerId |-> stub.talkerId, chxOk |-> stub.chxOk,
     originalPacketId |-> stub.sentenceId, dataFields |-> Tail(fields)]

\* DefaultPacketFactory.getParser: the id of the built-in decoder for the
\* stub, <<>> when there is none ($PMTK314 and the like go to the MTK decoder).
getParser(stub) ==
    IF Substr(stub.sentenceId, 0, 3) = MTK THEN MTK
    ELSE IF stub.sentenceId \in BuiltinIds THEN stub.sentenceId
    ELSE <<>>

-----------------------------------------------------------------------------
(* src/utils (parseFloatSafe) and src/parser/codecs *)

DecimalValue(c) == IF HexValue(c) < 10 THEN HexValue(c) ELSE 0 - 1

RECURSIVE DigitsPrefix(_)
DigitsPrefix(s) ==
    IF s = <<>> \/ DecimalValue(Head(s)) < 0 THEN <<>>
    ELSE <<Head(s)>> \o DigitsPrefix(Tail(s))

RECURSIVE DigitsValue(_, _)
DigitsValue(ds, acc) ==
    IF ds = <<>> THEN acc
    ELSE DigitsValue(Tail(ds), (acc * 10) + DecimalValue(Head(ds)))

\* The first three fractional digits as thousandths.
Thousandths(fs) ==
    DigitsValue(Substr(fs \o <<"0","0","0">>, 0, 3), 0)

\* parseFloatSafe(str): the number a field starts with, in thousandths, or NaN
\* for an absent, empty or non-numeric field.
parseFloatSafe(str) ==
    LET neg  == str # <<>> /\ Head(str) = "-"
        body == IF neg THEN Tail(str) ELSE str
        ip   == DigitsPrefix(body)
        rest == SubstrFrom(body, Len(ip))
        fp   == IF rest # <<>> /\ Head(rest) = "." THEN DigitsPrefix(Tail(rest))
                ELSE <<>>
        mag  == (DigitsValue(ip, 0) * 1000) + Thousandths(fp)
    IN  IF ip = <<>> /\ fp = <<>> THEN [nan |-> TRUE]
        ELSE [nan |-> FALSE, milli |-> IF neg THEN 0 - mag ELSE mag]

\* fields[i] with a 0-based index; an absent field reads as the empty string
\* (both parse to NaN).
Field(fields, i) == IF i + 1 <= Len(fields) THEN fields[i + 1] ELSE <<>>

\* codecs/DPT.decodeSentence
decodeDPT(stub, fields) ==
    initStubFields(stub, DPT) @@
    [depthMeters |-> parseFloatSafe(Field(fields, 1)),
     offsetMeters |-> parseFloatSafe(Field(fields, 2)),
     maximumRangeScale |-> parseFloatSafe(Field(fields, 3))]

\* codecs/DBS.decodeSentence
decodeDBS(stub, fields) ==
    initStubFields(stub, DBS) @@
    [depthFeet |-> parseFloatSafe(Field(fields, 1)),
     depthMeters |-> parseFloatSafe(Field(fields, 3)),
     depthFathoms |-> parseFloatSafe(Field(fields, 5))]

\* codecs/DBK.decodeSentence
decodeDBK(stub, fields) ==
    initStubFields(stub, DBK) @@
    [depthFeet |-> parseFloatSafe(Field(fields, 1)),
     depthMeters |-> parseFloatSafe(Field(fields, 3)),
     depthFathoms |-> parseFloatSafe(Field(fields, 5))]

-----------------------------------------------------------------------------
(* src/parser/index.ts *)

\* assembleExtendedNmeaPacket: the switch over stub.talkerId.
assembleExtendedNmeaPacket(stub, fields) ==
    CASE stub.talkerId = DBS -> [handled |-> TRUE, packet |-> decodeDBS(stub, fields)]
      [] stub.talkerId = DBK -> [handled |-> TRUE, packet |-> decodeDBK(stub, fields)]
      [] stub.talkerId = DPT -> [handled |-> TRUE, packet |-> decodeDPT(stub, fields)]
      [] OTHER -> [handled |-> FALSE]

\* new CustomPacketFactory(): DefaultPacketFactory's default constructor
\* argument leaves ableToParseBadChecksum false.
SAFE_NMEA_PACKET_FACTORY == [ableToParseBadChecksum |-> FALSE, unsafe |-> FALSE]

\* Variant: an UnsafePacketFactory whose constructor leaves the default
\* ableToParseBadChecksum (super() instead of super(true)).
UnsafeFactoryDefaultSuper == [ableToParseBadChecksum |-> FALSE, unsafe |-> TRUE]

\* new UnsafePacketFactory(): super(true) sets ableToParseBadChecksum.
UNSAFE_NMEA_PACKET_FACTORY == [ableToParseBadChecksum |-> TRUE, unsafe |-> TRUE]

\* assembleCustomPacket of the two factories.
assembleCustomPacket(factory, stub, fields) ==
    LET assembledPacket == assembleExtendedNmeaPacket(stub, fields)
    IN  IF factory.unsafe /\ ~assembledPacket.handled
        THEN [handled |-> TRUE, packet |-> decodeUnknown(stub, fields)]
        ELSE assembledPacket

\* DefaultPacketFactory.assemble: a built-in decoder first, else the
\* factory's assembleCustomPacket.
assemble(factory, stub, fields) ==
    IF getParser(stub) # <<>>
    THEN [handled |-> TRUE, packet |-> decodeBuiltin(getParser(stub), stub, fields)]
    ELSE assembleCustomPacket(factory, stub, fields)

\* nmea-simple parseGenericPacket(sentence, factory): a packet, or the Error
\* it throws.
parseGenericPacket(nmeaSentence, factory) ==
    LET chxOk  == validNmeaChecksum(nmeaSentence)
        fields == Split(Split(nmeaSentence, "*")[1], ",")
        stub   == parseStub(fields[1], chxOk)
        packet == assemble(factory, stub, fields)
    IN  IF ~chxOk /\ ~factory.ableToParseBadChecksum
        THEN [ok |-> FALSE, error |-> "Invalid sentence"]
        ELSE IF ~packet.handled
        THEN [ok |-> FALSE, error |-> "No known parser for sentence ID"]
        ELSE [ok |-> TRUE, packet |-> packet.packet]

parseNmeaSentence(nmeaSentence) ==
    parseGenericPacket(nmeaSentence, SAFE_NMEA_PACKET_FACTORY)

parseUnsafeNmeaSentence(nmeaSentence) ==
    parseGenericPacket(nmeaSentence, UNSAFE_NMEA_PACKET_FACTORY)

-----------------------------------------------------------------------------
(* Sentences: the literals of test/helpers/nmea-sentences.ts and generated ones *)

\* nmeaSentences.GGA: '$IIGGA,123519,4807.04,N,1131.00,E,1,8,0.9,545.9,M,46.9,M,,*52'
nmeaSentences_GGA ==
    <<"$","I","I","G","G","A",",","1","2","3","5","1","9",",","4","8","0",
      "7",".","0","4",",","N",",","1","1","3","1",".","0","0",",","E",",",
      "1",",","8",",","0",".","9",",","5","4","5",".","9",",","M",",","4",
      "6",".","9",",","M",",",",","*","5","2">>

\* nmeaSentences.RMC: '$GPRMC,123519,A,4807.038,N,01131.000,E,022.4,084.4,230394,003.1,W*6A'
nmeaSentences_RMC ==
    <<"$","G","P","R","M","C",",","1","2","3","5","1","9",",","A",",","4",
      "8","0","7",".","0","3","8",",","N",",","0","1","1","3","1",".","0",
      "0","0",",","E",",","0","2","2",".","4",",","0","8","4",".","4",",",
      "2","3","0","3","9","4",",","0","0","3",".","1",",","W","*","6","A">>

\* nmeaSentences.GLL: '$GPGLL,6005.068,N,02332.341,E,095601,A,D*42'
nmeaSentences_GLL ==
    <<"$","G","P","G","L","L",",","6","0","0","5",".","0","6","8",",","N",
      ",","0","2","3","3","2",".","3","4","1",",","E",",","0","9","5","6",
      "0","1",",","A",",","D","*","4","2">>

\* nmeaSentences.DBT: '$IIDBT,036.41,f,011.10,M,005.99,F*25'
nmeaSentences_DBT ==
    <<"$","I","I","D","B","T",",","0","3","6",".","4","1",",","f",",","0",
      "1","1",".","1","0",",","M",",","0","0","5",".","9","9",",","F","*",
      "2","5">>

\* nmeaSentences.DPT: '$IIDPT,15.5,2.3,100.0*4A'
nmeaSentences_DPT ==
    <<"$","I","I","D","P","T",",","1","5",".","5",",","2",".","3",",","1",
      "0","0",".","0","*","4","A">>

\* nmeaSentences.DBS: '$IIDBS,36.41,f,11.10,M,5.99,F*25'
nmeaSentences_DBS ==
    <<"$","I","I","D","B","S",",","3","6",".","4","1",",","f",",","1","1",
      ".","1","0",",","M",",","5",".","9","9",",","F","*","2","5">>

\* nmeaSentences.DBK: '$IIDBK,30.25,f,9.22,M,5.04,F*2A'
nmeaSentences_DBK ==
    <<"$","I","I","D","B","K",",","3","0",".","2","5",",","f",",","9",".",
      "2","2",",","M",",","5",".","0","4",",","F","*","2","A">>

TestSentences ==
    {nmeaSentences_GGA, nmeaSentences_RMC, nmeaSentences_GLL, nmeaSentences_DBT,
     nmeaSentences_DPT, nmeaSentences_DBS, nmeaSentences_DBK}

Digits == <<"1","2","3","4","5","6","7","8","9">>

\* The data fields of payload variant i: ",i".
Payload(i) == <<",", Digits[i]>>

\* The checksum a talker puts on the wire: XOR of the bytes after the start
\* marker.
WireChecksum(body) == XorRange(body, 2, Len(body)) % 256

Hex2(n, digits) == <<digits[(n \div 16) + 1], digits[(n % 16) + 1]>>

\* A sentence as a device may send it: start marker, talker, sentence id, one
\* data field and a checksum part that is correct ("ok"), correct in lower
\* case ("lower"), altered ("bad") or missing with its delimiter ("none").
MkSentence(start, talker, id, i, ck) ==
    LET body == <<start>> \o talker \o id \o Payload(i)
        sum  == WireChecksum(body)
    IN  CASE ck = "ok"    -> body \o <<"*">> \o Hex2(sum, HexDigits)
          [] ck = "lower" -> body \o <<"*">> \o Hex2(sum, LowerHexDigits)
          [] ck = "bad"   -> body \o <<"*">> \o Hex2((sum + 1) % 256, HexDigits)
          [] ck = "none"  -> body

Starts == {"$", "!"}
TwoLetterTalkers == {<<"I","I">>, <<"G","P">>, <<"H","C">>}
Talkers == TwoLetterTalkers \cup {<<"P">>}
SentenceIds == {GGA, RMC, GLL, DBT, DPT, DBS, DBK, XYZ}
ChecksumKinds == {"ok", "lower", "bad", "none"}

GeneratedSentences ==
    {MkSentence(st, tk, id, i, ck) :
        st \in Starts, tk \in Talkers, id \in SentenceIds,
        i \in 1..NumPayloads, ck \in ChecksumKinds}

\* A depth value as a device writes it, "i.5", and the number it stands for
\* (in thousandths).
DepthText(i) == <<Digits[i], ".", "5">>
DepthNumber(i) == [nan |-> FALSE, milli |-> (i * 1000) + 500]

\* A DPT, DBS or DBK sentence built from three known values, in the layout
\* of the codec's header comment: $--DPT,x.x,x.x,x.x*hh and
\* $--DBS,x.x,f,x.x,M,x.x,F*hh, with a correct checksum.
MkDepthSentence(talker, id, a, b, c) ==
    LET body == IF id = DPT
                THEN <<"$">> \o talker \o id \o <<",">> \o DepthText(a) \o <<",">>
                        \o DepthText(b) \o <<",">> \o DepthText(c)
                ELSE <<"$">> \o talker \o id \o <<",">> \o DepthText(a)
                        \o <<",", "f", ",">> \o DepthText(b)
                        \o <<",", "M", ",">> \o DepthText(c) \o <<",", "F">>
    IN  body \o <<"*">> \o Hex2(WireChecksum(body), HexDigits)

\* The round trips of the model: a sentence with the identifier and the values
\* it was built from.
DepthRoundTrips ==
    {[text |-> MkDepthSentence(<<"I","I">>, id, a, b, c), id |-> id,
      values |-> <<DepthNumber(a), DepthNumber(b), DepthNumber(c)>>] :
        id \in {DPT, DBS, DBK}, a \in 1..NumPayloads, b \in 1..NumPayloads,
        c \in 1..NumPayloads}

DepthSentences == {rt.text : rt \in DepthRoundTrips}

Sentences == TestSentences \cup GeneratedSentences \cup DepthSentences

\* The decodes of every sentence of the model, computed once.
StrictDecode == [s \in Sentences |-> parseNmeaSentence(s)]
UnsafeDecode == [s \in Sentences |-> parseUnsafeNmeaSentence(s)]

-----------------------------------------------------------------------------
(* Parser harness: a caller decoding one sentence in both modes *)

NotDecoded == <<>>

InitParser ==
    /\ sentence \in Sentences
    /\ decoded = [strict |-> NotDecoded, unsafe |-> NotDecoded]

\* parseNmeaSentence(sentence)
DecodeStrict ==
    /\ decoded.strict = NotDecoded
    /\ decoded' = [decoded EXCEPT !.strict = <<StrictDecode[sentence]>>]
    /\ UNCHANGED sentence

\* parseUnsafeNmeaSentence(sentence)
DecodeUnsafe ==
    /\ decoded.unsafe = NotDecoded
    /\ decoded' = [decoded EXCEPT !.unsafe = <<UnsafeDecode[sentence]>>]
    /\ UNCHANGED sentence

\* The caller moves on to another sentence.
NextSentence ==
    /\ decoded.strict # NotDecoded
    /\ decoded.unsafe # NotDecoded
    /\ sentence' \in Sentences
    /\ decoded' = [strict |-> NotDecoded, unsafe |-> NotDecoded]

-----------------------------------------------------------------------------
(* src/core/index.ts: configuration of the machine *)

Undefined == [undefined |-> TRUE]
Defined(v) == [undefined |-> FALSE, value |-> v]

\* The allow-lists a machine is created with: none, an empty one, and the
\* test configuration's ['GGA', 'RMC'].
AllowLists == {Undefined, Defined(<<>>), Defined(<<GGA, RMC>>)}

\* config.initialPackets: {}
initialPackets == [k \in {} |-> k]

\* config.adapter of the test configuration: the number of stored packets.
adapter(pkts) == [count |-> Cardinality(DOMAIN pkts)]

\* config.initialData: { count: 0 }
initialData == [count |-> 0]

\* The baud rate of a fresh context.
DefaultBaudRate == 4800
BaudRates == {DefaultBaudRate, 9600}

\* The ports navigator.serial.requestPort() may resolve with.
Ports == {"port1", "port2"}

\* Variant: the allow-list is never consulted.
isAllowedAnyId(sentenceId, allowedIds) == TRUE

\* Variant: without the length check, so that an empty list admits nothing.
isAllowedListedOnly(sentenceId, allowedIds) ==
    IF allowedIds.undefined
    THEN TRUE
    ELSE \E i \in 1..Len(allowedIds.value) : allowedIds.value[i] = sentenceId

\* isAllowedSentenceId(sentenceId, allowedIds)
isAllowedSentenceId(sentenceId, allowedIds) ==
    IF allowedIds.undefined \/ Len(allowedIds.value) = 0
    THEN TRUE
    ELSE \E i \in 1..Len(allowedIds.value) : allowedIds.value[i] = sentenceId

\* { ...context.packets, [sentenceId]: packet }
Spread(pkts, sentenceId, packet) ==
    [k \in DOMAIN pkts \cup {sentenceId} |->
        IF k = sentenceId THEN packet ELSE pkts[k]]

-----------------------------------------------------------------------------
(* The actions of setup({ actions }) as functions of the context *)

\* Variant: the port is set and the error is left as it was.
setPortKeepError(context, p) == [context EXCEPT !.port = p]

setPort(context, p) == [context EXCEPT !.port = p, !.error = null]

\* Variant: the message of the thrown error as it is, without the default.
setErrorRawMessage(context, err) == [context EXCEPT !.error = err.message]

\* setError: the message of what connectToSerial threw.
setError(context, err) ==
    LET errorMessage ==
            IF err.kind = "string" THEN err.message
            ELSE IF err.message # "" THEN err.message
            ELSE "Failed to connect."
    IN  [context EXCEPT !.error = errorMessage]

\* Variant: an entry already in the cache is kept (first write wins).
storePacketFirstWins(context, packet) ==
    LET newPackets ==
            IF packet.sentenceId \in DOMAIN context.packets
            THEN context.packets
            ELSE Spread(context.packets, packet.sentenceId, packet)
    IN  IF isAllowedSentenceId(packet.sentenceId, allowedSentenceIds)
        THEN [context EXCEPT !.packets = newPackets,
                             !.data = adapter(newPackets),
                             !.error = null]
        ELSE [context EXCEPT !.data = adapter(context.packets), !.error = null]

\* Variant: the cache is updated but data is not derived again.
storePacketStaleData(context, packet) ==
    IF isAllowedSentenceId(packet.sentenceId, allowedSentenceIds)
    THEN [context EXCEPT
            !.packets = Spread(context.packets, packet.sentenceId, packet),
            !.error = null]
    ELSE [context EXCEPT !.error = null]

\* Variant: a packet that is filtered out leaves the error as it was.
storePacketFilteredKeepsError(context, packet) ==
    LET sentenceId == packet.sentenceId
    IN  IF sentenceId # <<>> /\ isAllowedSentenceId(sentenceId, allowedSentenceIds)
        THEN LET newPackets == Spread(context.packets, sentenceId, packet)
             IN  [context EXCEPT !.packets = newPackets,
                                 !.data = adapter(newPackets),
                                 !.error = null]
        ELSE [context EXCEPT !.data = adapter(context.packets)]

\* Variant: storing a packet evicts the entries of every other id.
storePacketEvictOthers(context, packet) ==
    LET sentenceId == packet.sentenceId
    IN  IF sentenceId # <<>> /\ isAllowedSentenceId(sentenceId, allowedSentenceIds)
        THEN LET newPackets == Spread(initialPackets, sentenceId, packet)
             IN  [context EXCEPT !.packets = newPackets,
                                 !.data = adapter(newPackets),
                                 !.error = null]
        ELSE [context EXCEPT !.data = adapter(context.packets), !.error = null]

storePacket(context, packet) ==
    LET sentenceId == packet.sentenceId
    IN  IF sentenceId # <<>> /\ isAllowedSentenceId(sentenceId, allowedSentenceIds)
        THEN LET newPackets == Spread(context.packets, sentenceId, packet)
             IN  [context EXCEPT !.packets = newPackets,
                                 !.data = adapter(newPackets),
                                 !.error = null]
        ELSE [context EXCEPT !.packets = context.packets,
                             !.data = adapter(context.packets),
                             !.error = null]

\* Variant: reporting the error also resets the cache and the data.
clearErrorResetCache(context, e) ==
    [context EXCEPT !.error = e, !.packets = initialPackets,
                    !.data = initialData]

clearError(context, e) == [context EXCEPT !.error = e]

setFatalError(context, e) == [context EXCEPT !.error = e]

\* Variant: the port and the error are reset, the cache is not.
disconnectKeepCache(context) == [context EXCEPT !.port = null, !.error = null]

disconnect(context) ==
    [context EXCEPT !.port = null, !.error = null,
                    !.packets = initialPackets, !.data = initialData]

setLogging(context, enabled) == [context EXCEPT !.enableLogging = enabled]

setBaudRate(context, rate) == [context EXCEPT !.baudRate = rate]

-----------------------------------------------------------------------------
(* createMachine: the transition of the machine on one event *)

\* Variant: SERIAL.ERROR is handled at the root, in every state, as
\* SET_LOGGING is.
transitionSerialErrorAtRoot(value, context, ev) ==
    LET stay == [value |-> value, context |-> context, stop |-> FALSE,
                 taken |-> TRUE]
    IN
    CASE ev.type = "SET_LOGGING" ->
            [stay EXCEPT !.context = setLogging(context, ev.enabled)]
      [] ev.type = "SERIAL.ERROR" ->
            [stay EXCEPT !.context = clearError(context, ev.error)]
      [] value = "disconnected" /\ ev.type = "CONNECT" ->
            [stay EXCEPT !.value = "connecting"]
      [] value = "disconnected" /\ ev.type = "SET_BAUD_RATE" ->
            [stay EXCEPT !.context = setBaudRate(context, ev.baudRate)]
      [] value = "connecting" /\ ev.type = "xstate.done.actor.connectToSerial" ->
            [stay EXCEPT !.value = "connected",
                         !.context = setPort(context, ev.output)]
      [] value = "connecting" /\ ev.type = "xstate.error.actor.connectToSerial" ->
            [stay EXCEPT !.value = "error",
                         !.context = setError(context, ev.error)]
      [] value = "connected" /\ ev.type = "SERIAL.DATA" ->
            [stay EXCEPT !.context = storePacket(context, ev.data)]
      [] value = "connected" /\ ev.type = "SERIAL.ERROR" ->
            [stay EXCEPT !.context = clearError(context, ev.error)]
      [] value = "connected" /\ ev.type = "FATAL_ERROR" ->
            [stay EXCEPT !.value = "error",
                         !.context = setFatalError(context, ev.error)]
      [] value = "connected" /\ ev.type = "SERIAL.DISCONNECTED" ->
            [stay EXCEPT !.value = "disconnecting"]
      [] value = "connected" /\ ev.type = "DISCONNECT" ->
            [stay EXCEPT !.stop = TRUE]
      [] value = "disconnecting" /\ ev.type \in {"xstate.done.actor.closePort",
                                                 "xstate.error.actor.closePort"} ->
            [stay EXCEPT !.value = "disconnected",
                         !.context = disconnect(context)]
      [] value = "error" /\ ev.type = "CONNECT" ->
            [stay EXCEPT !.value = "connecting"]
      [] OTHER -> [stay EXCEPT !.taken = FALSE]

\* What the machine does with event ev in state value: the target state, the
\* context after the transition's actions, whether STOP goes to the reader
\* and whether value has a transition for ev at all.  An event no state
\* handles leaves everything as it is; SET_LOGGING is handled at the root, in
\* every state.
transition(value, context, ev) ==
    LET stay == [value |-> value, context |-> context, stop |-> FALSE,
                 taken |-> TRUE]
    IN
    CASE ev.type = "SET_LOGGING" ->
            [stay EXCEPT !.context = setLogging(context, ev.enabled)]
      [] value = "disconnected" /\ ev.type = "CONNECT" ->
            [stay EXCEPT !.value = "connecting"]
      [] value = "disconnected" /\ ev.type = "SET_BAUD_RATE" ->
            [stay EXCEPT !.context = setBaudRate(context, ev.baudRate)]
      [] value = "connecting" /\ ev.type = "xstate.done.actor.connectToSerial" ->
            [stay EXCEPT !.value = "connected",
                         !.context = setPort(context, ev.output)]
      [] value = "connecting" /\ ev.type = "xstate.error.actor.connectToSerial" ->
            [stay EXCEPT !.value = "error",
                         !.context = setError(context, ev.error)]
      [] value = "connected" /\ ev.type = "SERIAL.DATA" ->
            [stay EXCEPT !.context = storePacket(context, ev.data)]
      [] value = "connected" /\ ev.type = "SERIAL.ERROR" ->
            [stay EXCEPT !.context = clearError(context, ev.error)]
      [] value = "connected" /\ ev.type = "FATAL_ERROR" ->
            [stay EXCEPT !.value = "error",
                         !.context = setFatalError(context, ev.error)]
      [] value = "connected" /\ ev.type = "SERIAL.DISCONNECTED" ->
            [stay EXCEPT !.value = "disconnecting"]
      [] value = "connected" /\ ev.type = "DISCONNECT" ->
            [stay EXCEPT !.stop = TRUE]
      [] value = "disconnecting" /\ ev.type \in {"xstate.done.actor.closePort",
                                                 "xstate.error.actor.closePort"} ->
            [stay EXCEPT !.value = "disconnected",
                         !.context = disconnect(context)]
      [] value = "error" /\ ev.type = "CONNECT" ->
            [stay EXCEPT !.value = "connecting"]
      [] OTHER -> [stay EXCEPT !.taken = FALSE]

Context ==
    [port |-> port, error |-> error, packets |-> packets, data |-> data,
     enableLogging |-> enableLogging, baudRate |-> baudRate]

\* Variant: the reader is left running when the machine leaves connected.
ReaderAfterKeepsRunning(from, to, stop) ==
    IF to.value = "connected" /\ from # "connected" THEN "reading"
    ELSE IF stop /\ to.value = "connected" /\ streamReader = "reading" THEN "stopping"
    ELSE streamReader

\* Variant: DISCONNECT handled in connected sends nothing to the reader.
ReaderAfterNoStop(from, to, stop) ==
    IF to.value = "connected" /\ from # "connected" THEN "reading"
    ELSE IF to.value # "connected" THEN "none"
    ELSE streamReader

\* The streamReader actor after a transition: invoked on entry to connected
\* (the read loop starts), stopped on exit from it, told to stop reading by
\* STOP (keepReading = false, reader.cancel()).
ReaderAfter(from, to, stop) ==
    IF to.value = "connected" /\ from # "connected" THEN "reading"
    ELSE IF to.value # "connected" THEN "none"
    ELSE IF stop /\ streamReader = "reading" THEN "stopping"
    ELSE streamReader

\* History: the packets accepted since the machine entered connected.
SessionAfter(from, to, ev) ==
    IF to.value = "connected" /\ from # "connected" THEN initialPackets
    ELSE IF from = "connected" /\ ev.type = "SERIAL.DATA"
            /\ ev.data.sentenceId # <<>>
            /\ isAllowedSentenceId(ev.data.sentenceId, allowedSentenceIds)
    THEN [k \in DOMAIN session \cup {ev.data.sentenceId} |->
            IF k = ev.data.sentenceId THEN ev.data ELSE session[k]]
    ELSE session

\* History: what the last transition taken was for.  SERIAL.DATA is recorded
\* with what became of the packet: "stored" under a new id or over an equal
\* entry, "replaced" over a different entry, "filtered" when not stored.
EventLabel(context, ev) ==
    IF ev.type # "SERIAL.DATA" THEN ev.type
    ELSE LET id == ev.data.sentenceId
         IN  IF id = <<>> \/ ~isAllowedSentenceId(id, allowedSentenceIds)
             THEN "SERIAL.DATA filtered"
             ELSE IF id \in DOMAIN context.packets /\ context.packets[id] # ev.data
             THEN "SERIAL.DATA replaced"
             ELSE "SERIAL.DATA stored"

\* src/core/client.ts setupSubscriptions: the callbacks the subscriber
\* invokes for one snapshot, with their arguments.
Callbacks(value, context) ==
    [onData |-> Defined(context.data),
     onStateChange |-> Defined(value = "connected"),
     onError |-> IF context.error # null /\ context.error # ""
                 THEN Defined(context.error)
                 ELSE Undefined]

NoCalls == [onData |-> Undefined, onStateChange |-> Undefined, onError |-> Undefined]

\* The actor hands each snapshot to its observers: the client's subscriber,
\* when there is one.
Notified(value, context) ==
    IF subscription = null THEN NoCalls ELSE Callbacks(value, context)

\* Variant: an event sent to a stopped actor is processed all the same.
ReceiveWhenStopped(ev) ==
    LET to == transition(state, Context, ev)
    IN  /\ state' = to.value
        /\ port' = to.context.port
        /\ error' = to.context.error
        /\ packets' = to.context.packets
        /\ data' = to.context.data
        /\ enableLogging' = to.context.enableLogging
        /\ baudRate' = to.context.baudRate
        /\ streamReader' = ReaderAfter(state, to, to.stop)
        /\ session' = SessionAfter(state, to, ev)
        /\ lastEvent' = IF to.taken THEN EventLabel(Context, ev) ELSE lastEvent
        /\ called' = Notified(to.value, to.context)
        /\ UNCHANGED <<allowedSentenceIds, sentence, decoded, navVars, lineStream, status,
                       subscription>>

\* actor.send(ev): a stopped actor drops the event; an active one takes it
\* from its mailbox, runs the transition and notifies its observers.
Receive(ev) ==
    IF status = "stopped"
    THEN UNCHANGED vars
    ELSE LET to == transition(state, Context, ev)
         IN  /\ state' = to.value
             /\ port' = to.context.port
             /\ error' = to.context.error
             /\ packets' = to.context.packets
             /\ data' = to.context.data
             /\ enableLogging' = to.context.enableLogging
             /\ baudRate' = to.context.baudRate
             /\ streamReader' = ReaderAfter(state, to, to.stop)
             /\ session' = SessionAfter(state, to, ev)
             /\ lastEvent' = IF to.taken THEN EventLabel(Context, ev) ELSE lastEvent
             /\ called' = Notified(to.value, to.context)
             /\ UNCHANGED <<allowedSentenceIds, sentence, decoded, navVars, lineStream,
                            status, subscription>>

-----------------------------------------------------------------------------
(* src/adapters/navigation: packets of nmea-simple as the computation reads them *)

\* JavaScript null as a value of a derived field.
Null == [null |-> TRUE]

\* A Date: its time value in whole minutes (UTC) and the seconds and
\* milliseconds within the minute.  16:00:12.71 is minute 960, 12710 ms.
Date(minutes, ms) == [minutes |-> minutes, ms |-> ms]

\* The time zone of the JavaScript runtime (Date's local time is the
\* browser's): the offset of local time from UTC in minutes, `before` up to
\* the UTC minute `at` and `after` from then on.  UTC has one offset;
\* New York on 2004-10-31 leaves daylight saving time at 06:00 UTC, and
\* enters it at 07:00 UTC on 2004-04-04 (minutes are counted from 00:00 UTC
\* of the day).
ZoneUTC == [at |-> 0, before |-> 0, after |-> 0]
TimeZones ==
    {ZoneUTC,
     [at |-> 360, before |-> 0 - 240, after |-> 0 - 300],
     [at |-> 420, before |-> 0 - 300, after |-> 0 - 240]}

\* ECMAScript LocalTime(t): t plus the offset in effect at the instant t.
LocalTime(zone, t) == t + (IF t < zone.at THEN zone.before ELSE zone.after)

\* ECMAScript UTC(t): the instant of a local time; a local time that occurs
\* twice or not at all is read with the offset before the transition.
UTC(zone, tLocal) ==
    IF tLocal - zone.before < zone.at THEN tLocal - zone.before
    ELSE IF tLocal - zone.after >= zone.at THEN tLocal - zone.after
    ELSE tLocal - zone.before

\* Date.prototype.getMinutes(): minutes of the hour, in local time.
getMinutes(zone, date) == LocalTime(zone, date.minutes) % 60

\* Date.prototype.setMinutes(min): the local time with its minutes field
\* replaced (overflowing into the hours), converted back to UTC; seconds and
\* milliseconds are kept.
setMinutes(zone, date, min) ==
    LET t == LocalTime(zone, date.minutes)
    IN  Date(UTC(zone, (t - (t % 60)) + min), date.ms)

\* Dates carried by the packets: 05:30:00 and 07:30:00 UTC (either side of
\* the zone transitions above) and the 16:00:12.71 of nmeaSentences.ZDA.
Dates == {Date(330, 0), Date(450, 0), Date(960, 12710)}

\* Packets of each sentence id that computeNavigationData reads, with the
\* fields it reads.  Numbers are in tenths (headings, speeds, depths) or in
\* hundredths of a minute of arc (latitude, longitude); the zone fields of
\* ZDA take every sign.
NavigationPackets ==
    [GGA |->
        {[sentenceId |-> GGA, time |-> Date(960, 12710), latitude |-> 480704,
          longitude |-> 113100, fixType |-> ft, altitudeMeters |-> 5459,
          satellitesInView |-> 8, horizontalDilution |-> 9] :
            ft \in {"fix", "none"}},
     RMC |->
        {[sentenceId |-> RMC, datetime |-> Date(450, 0), status |-> st,
          latitude |-> 480703, longitude |-> 113199, speedKnots |-> 224,
          trackTrue |-> tt] :
            st \in {"valid", "warning"}, tt \in {Defined(844), Undefined}},
     GLL |->
        {[sentenceId |-> GLL, time |-> Date(330, 0), latitude |-> 491627,
          longitude |-> 1231110, status |-> st] : st \in {"valid", "invalid"}},
     ZDA |->
        {[sentenceId |-> ZDA, datetime |-> d, localZoneHours |-> h,
          localZoneMinutes |-> m] :
            d \in Dates, h \in {0 - 1, 0, 1}, m \in {0 - 30, 0, 30}},
     VTG |->
        {[sentenceId |-> VTG, trackTrue |-> tt, speedKnots |-> 56] :
            tt \in {Defined(2104), Undefined}},
     HDT |->
        {[sentenceId |-> HDT, heading |-> h] : h \in {Defined(2342), Undefined}},
     HDG |->
        {[sentenceId |-> HDG, heading |-> Defined(983), variation |-> 126,
          variationDirection |-> dir] : dir \in {"W", "E", ""}}
        \cup {[sentenceId |-> HDG, heading |-> Undefined, variation |-> 126,
               variationDirection |-> "W"]},
     HDM |-> {[sentenceId |-> HDM, heading |-> 2015]},
     DPT |->
        {[sentenceId |-> DPT, depthMeters |-> d] : d \in {Defined(155), Undefined}},
     DBT |-> {[sentenceId |-> DBT, depthMeters |-> 111]},
     DBS |->
        {[sentenceId |-> DBS, depthMeters |-> d] : d \in {Defined(112), Undefined}},
     DBK |->
        {[sentenceId |-> DBK, depthMeters |-> d] : d \in {Defined(92), Undefined}}]

\* packets.ID of a StoredPackets object: the packet, or Undefined.
Stored(pkts, id) == IF id \in DOMAIN pkts THEN Defined(pkts[id]) ELSE Undefined

-----------------------------------------------------------------------------
(* src/adapters/navigation/computation.ts *)

\* Variant: a position that takes GGA whatever its fix type.
computePositionAnyFix(gga, rmc, gll) ==
    IF ~gga.undefined
    THEN [latitude |-> gga.value.latitude, longitude |-> gga.value.longitude,
          source |-> "GGA", fixType |-> gga.value.fixType,
          altitudeMeters |-> gga.value.altitudeMeters,
          satellitesInView |-> gga.value.satellitesInView,
          horizontalDilution |-> gga.value.horizontalDilution]
    ELSE IF ~rmc.undefined /\ rmc.value.status = "valid"
    THEN [latitude |-> rmc.value.latitude, longitude |-> rmc.value.longitude,
          source |-> "RMC", status |-> rmc.value.status]
    ELSE IF ~gll.undefined /\ gll.value.status = "valid"
    THEN [latitude |-> gll.value.latitude, longitude |-> gll.value.longitude,
          source |-> "GLL", status |-> "valid"]
    ELSE Null

computePosition(gga, rmc, gll) ==
    IF ~gga.undefined /\ gga.value.fixType # "none"
    THEN [latitude |-> gga.value.latitude, longitude |-> gga.value.longitude,
          source |-> "GGA", fixType |-> gga.value.fixType,
          altitudeMeters |-> gga.value.altitudeMeters,
          satellitesInView |-> gga.value.satellitesInView,
          horizontalDilution |-> gga.value.horizontalDilution]
    ELSE IF ~rmc.undefined /\ rmc.value.status = "valid"
    THEN [latitude |-> rmc.value.latitude, longitude |-> rmc.value.longitude,
          source |-> "RMC", status |-> rmc.value.status]
    ELSE IF ~gll.undefined /\ gll.value.status = "valid"
    THEN [latitude |-> gll.value.latitude, longitude |-> gll.value.longitude,
          source |-> "GLL", status |-> "valid"]
    ELSE Null

\* Variant: a time that gives GGA, RMC and GLL times a local copy of utc.
computeTimeLocalCopy(zone, zda, gga, rmc, gll) ==
    IF ~zda.undefined
    THEN [utc |-> zda.value.datetime,
          local |-> setMinutes(zone, zda.value.datetime,
                      getMinutes(zone, zda.value.datetime)
                        + (zda.value.localZoneHours * 60)
                        + zda.value.localZoneMinutes),
          source |-> "ZDA"]
    ELSE IF ~gga.undefined /\ gga.value.fixType # "none"
    THEN [utc |-> gga.value.time, local |-> gga.value.time, source |-> "GGA"]
    ELSE IF ~rmc.undefined /\ rmc.value.status = "valid"
    THEN [utc |-> rmc.value.datetime, local |-> rmc.value.datetime, source |-> "RMC"]
    ELSE IF ~gll.undefined /\ gll.value.status = "valid"
    THEN [utc |-> gll.value.time, local |-> gll.value.time, source |-> "GLL"]
    ELSE Null

\* computeTime; `zone` is the runtime's time zone, which Date's getMinutes
\* and setMinutes read.
computeTime(zone, zda, gga, rmc, gll) ==
    IF ~zda.undefined
    THEN LET offsetMinutes == (zda.value.localZoneHours * 60)
                                + zda.value.localZoneMinutes
             localTime == setMinutes(zone, zda.value.datetime,
                             getMinutes(zone, zda.value.datetime) + offsetMinutes)
         IN  [utc |-> zda.value.datetime, local |-> localTime, source |-> "ZDA"]
    ELSE IF ~gga.undefined /\ gga.value.fixType # "none"
    THEN [utc |-> gga.value.time, local |-> Null, source |-> "GGA"]
    ELSE IF ~rmc.undefined /\ rmc.value.status = "valid"
    THEN [utc |-> rmc.value.datetime, local |-> Null, source |-> "RMC"]
    ELSE IF ~gll.undefined /\ gll.value.status = "valid"
    THEN [utc |-> gll.value.time, local |-> Null, source |-> "GLL"]
    ELSE Null

\* Variant: a speed that prefers a valid RMC to VTG.
computeSpeedRmcFirst(vtg, rmc) ==
    IF ~rmc.undefined /\ rmc.value.status = "valid"
    THEN [knots |-> rmc.value.speedKnots, source |-> "RMC"]
    ELSE IF ~vtg.undefined
    THEN [knots |-> vtg.value.speedKnots, source |-> "VTG"]
    ELSE Null

\* Variant: a speed that reads vtg.speedKnots without testing vtg, which
\* raises a TypeError when no VTG packet is cached.
computeSpeedUnguarded(vtg, rmc) ==
    IF vtg.undefined THEN [raised |-> "TypeError"]
    ELSE [knots |-> vtg.value.speedKnots, source |-> "VTG"]

computeSpeed(vtg, rmc) ==
    IF ~vtg.undefined
    THEN [knots |-> vtg.value.speedKnots, source |-> "VTG"]
    ELSE IF ~rmc.undefined /\ rmc.value.status = "valid"
    THEN [knots |-> rmc.value.speedKnots, source |-> "RMC"]
    ELSE Null

\* Variant: a variation that is added whatever its direction.
calculateVariationUnsigned(hdg) == hdg.variation

calculateVariationValue(hdg) ==
    IF hdg.variationDirection = "W" THEN 0 - hdg.variation
    ELSE IF hdg.variationDirection = "E" THEN hdg.variation
    ELSE hdg.variation

\* rmc?.trackTrue ?? vtg?.trackTrue
CourseOverGround(rmc, vtg) ==
    IF ~rmc.undefined /\ ~rmc.value.trackTrue.undefined THEN rmc.value.trackTrue
    ELSE IF ~vtg.undefined THEN vtg.value.trackTrue
    ELSE Undefined

\* Variant: a heading that takes course over ground from VTG before RMC.
computeHeadingVtgFirst(hdt, hdg, rmc, vtg) ==
    IF ~hdt.undefined /\ ~hdt.value.heading.undefined
    THEN [degreesTrue |-> hdt.value.heading.value, source |-> "HDT", isDerived |-> FALSE]
    ELSE IF ~hdg.undefined /\ ~hdg.value.heading.undefined
    THEN [degreesTrue |-> hdg.value.heading.value + calculateVariationValue(hdg.value),
          source |-> "HDG", isDerived |-> FALSE]
    ELSE IF ~CourseOverGround(vtg, rmc).undefined
    THEN [degreesTrue |-> CourseOverGround(vtg, rmc).value, source |-> "COG",
          isDerived |-> TRUE]
    ELSE Null

computeHeading(hdt, hdg, rmc, vtg) ==
    IF ~hdt.undefined /\ ~hdt.value.heading.undefined
    THEN [degreesTrue |-> hdt.value.heading.value, source |-> "HDT", isDerived |-> FALSE]
    ELSE IF ~hdg.undefined /\ ~hdg.value.heading.undefined
    THEN LET variationValue == calculateVariationValue(hdg.value)
         IN  [degreesTrue |-> hdg.value.heading.value + variationValue,
              source |-> "HDG", isDerived |-> FALSE]
    ELSE LET cog == CourseOverGround(rmc, vtg)
         IN  IF ~cog.undefined
             THEN [degreesTrue |-> cog.value, source |-> "COG", isDerived |-> TRUE]
             ELSE Null

\* Variant: a depth that takes DBT before DPT.
computeDepthDbtFirst(dpt, dbt, dbs, dbk) ==
    IF ~dbt.undefined
    THEN [meters |-> dbt.value.depthMeters, source |-> "DBT"]
    ELSE IF ~dpt.undefined /\ ~dpt.value.depthMeters.undefined
    THEN [meters |-> dpt.value.depthMeters.value, source |-> "DPT"]
    ELSE IF ~dbs.undefined /\ ~dbs.value.depthMeters.undefined
    THEN [meters |-> dbs.value.depthMeters.value, source |-> "DBS"]
    ELSE IF ~dbk.undefined /\ ~dbk.value.depthMeters.undefined
    THEN [meters |-> dbk.value.depthMeters.value, source |-> "DBK"]
    ELSE Null

computeDepth(dpt, dbt, dbs, dbk) ==
    IF ~dpt.undefined /\ ~dpt.value.depthMeters.undefined
    THEN [meters |-> dpt.value.depthMeters.value, source |-> "DPT"]
    ELSE IF ~dbt.undefined
    THEN [meters |-> dbt.value.depthMeters, source |-> "DBT"]
    ELSE IF ~dbs.undefined /\ ~dbs.value.depthMeters.undefined
    THEN [meters |-> dbs.value.depthMeters.value, source |-> "DBS"]
    ELSE IF ~dbk.undefined /\ ~dbk.value.depthMeters.undefined
    THEN [meters |-> dbk.value.depthMeters.value, source |-> "DBK"]
    ELSE Null

\* computeNavigationData(packets); it has the one parameter.
\* Variant: the speed is reported only once a position has been derived, so
\* one field depends on another's result.
computeNavigationDataSpeedNeedsPosition(zone, pkts) ==
    LET position == computePosition(Stored(pkts, GGA), Stored(pkts, RMC), Stored(pkts, GLL))
    IN  [time |-> computeTime(zone, Stored(pkts, ZDA), Stored(pkts, GGA),
                              Stored(pkts, RMC), Stored(pkts, GLL)),
         position |-> position,
         speed |-> IF position = Null THEN Null
                   ELSE computeSpeed(Stored(pkts, VTG), Stored(pkts, RMC)),
         heading |-> computeHeading(Stored(pkts, HDT), Stored(pkts, HDG),
                                    Stored(pkts, RMC), Stored(pkts, VTG)),
         depth |-> computeDepth(Stored(pkts, DPT), Stored(pkts, DBT),
                                Stored(pkts, DBS), Stored(pkts, DBK))]

computeNavigationData(zone, pkts) ==
    [time |-> computeTime(zone, Stored(pkts, ZDA), Stored(pkts, GGA),
                          Stored(pkts, RMC), Stored(pkts, GLL)),
     position |-> computePosition(Stored(pkts, GGA), Stored(pkts, RMC),
                                  Stored(pkts, GLL)),
     speed |-> computeSpeed(Stored(pkts, VTG), Stored(pkts, RMC)),
     heading |-> computeHeading(Stored(pkts, HDT), Stored(pkts, HDG),
                                Stored(pkts, RMC), Stored(pkts, VTG)),
     depth |-> computeDepth(Stored(pkts, DPT), Stored(pkts, DBT),
                            Stored(pkts, DBS), Stored(pkts, DBK))]

-----------------------------------------------------------------------------
(* src/adapters/navigation/adapter.ts *)

\* The externalVariation option a navigation machine is created with: none,
\* or the 5.5 of the documentation's example.
ExternalVariations == {Undefined, Defined(55)}

\* createNavigationAdapter(externalVariation)(packets): the closure calls
\* computeNavigationData(packets, externalVariation), whose only parameter is
\* packets; the second argument is dropped by the call.
navigationAdapter(variation, zone, pkts) == computeNavigationData(zone, pkts)

initialNavigationData ==
    [time |-> Null, position |-> Null, speed |-> Null, heading |-> Null,
     depth |-> Null]

initialNavigationPackets == [k \in {} |-> k]

NAVIGATION_SENTENCE_IDS ==
    <<GGA, RMC, GLL, VTG, HDT, HDG, HDM, DPT, DBT, DBS, DBK, ZDA>>

\* A StoredPackets object holding the given packets (Undefined: no entry).
Cache(ps) ==
    LET present == {i \in DOMAIN ps : ps[i] # Undefined}
    IN  [id \in {ps[i].sentenceId : i \in present} |->
            ps[CHOOSE i \in present : ps[i].sentenceId = id]]

Optional(packetSet) == packetSet \cup {Undefined}

\* The caches the computation is applied to: every combination of presence
\* and variant of the packets read for time and position (ZDA, GGA, RMC,
\* GLL), for speed and heading (HDT, HDG, HDM, RMC, VTG) and for depth (DPT,
\* DBT, DBS, DBK).
\* One packet of a sentence id, or none.
OneOrNone(packetSet) == {Undefined, CHOOSE p \in packetSet : TRUE}

\* Every subset of the navigation sentence ids present, one packet each (the
\* empty cache included).
PresenceCaches ==
    {Cache(<<z, g, r, l, t, h, m, v, p, b, s, k>>) :
        z \in OneOrNone(NavigationPackets.ZDA), g \in OneOrNone(NavigationPackets.GGA),
        r \in OneOrNone(NavigationPackets.RMC), l \in OneOrNone(NavigationPackets.GLL),
        t \in OneOrNone(NavigationPackets.HDT), h \in OneOrNone(NavigationPackets.HDG),
        m \in OneOrNone(NavigationPackets.HDM), v \in OneOrNone(NavigationPackets.VTG),
        p \in OneOrNone(NavigationPackets.DPT), b \in OneOrNone(NavigationPackets.DBT),
        s \in OneOrNone(NavigationPackets.DBS), k \in OneOrNone(NavigationPackets.DBK)}

NavigationCaches ==
    PresenceCaches \cup
    {Cache(<<z, g, r, l>>) :
        z \in Optional(NavigationPackets.ZDA), g \in Optional(NavigationPackets.GGA),
        r \in Optional(NavigationPackets.RMC), l \in Optional(NavigationPackets.GLL)}
    \cup {Cache(<<t, g, m, r, v>>) :
        t \in Optional(NavigationPackets.HDT), g \in Optional(NavigationPackets.HDG),
        m \in Optional(NavigationPackets.HDM), r \in Optional(NavigationPackets.RMC),
        v \in Optional(NavigationPackets.VTG)}
    \cup {Cache(<<p, t, s, k>>) :
        p \in Optional(NavigationPackets.DPT), t \in Optional(NavigationPackets.DBT),
        s \in Optional(NavigationPackets.DBS), k \in Optional(NavigationPackets.DBK)}

-----------------------------------------------------------------------------
(* The events *)

ConnectEvent == [type |-> "CONNECT"]
DisconnectEvent == [type |-> "DISCONNECT"]
SetLoggingEvent(b) == [type |-> "SET_LOGGING", enabled |-> b]
SetBaudRateEvent(r) == [type |-> "SET_BAUD_RATE", baudRate |-> r]
SerialData(packet) == [type |-> "SERIAL.DATA", data |-> packet]
SerialError(e) == [type |-> "SERIAL.ERROR", error |-> e]
FatalError(e) == [type |-> "FATAL_ERROR", error |-> e]
SerialDisconnected == [type |-> "SERIAL.DISCONNECTED"]

\* What connectToSerial may throw: an Error with a message, an Error without.
ConnectFailures ==
    {[kind |-> "Error", message |-> "Web Serial API is not supported in this browser."],
     [kind |-> "Error", message |-> ""]}

\* Messages of SERIAL.ERROR and FATAL_ERROR events.
SerialErrorMessages == {"Parse error"}
FatalErrorMessages == {"Port disconnected"}

\* The lines the port may deliver to the read loop.
StreamLines ==
    {nmeaSentences_GGA, nmeaSentences_RMC}
    \cup {MkSentence("$", <<"G","P">>, GGA, i, "ok") : i \in 1..NumPayloads}
    \cup {MkSentence("$", <<"G","P">>, GGA, 1, "bad"),
          MkSentence("$", <<"G","P">>, GGA, 1, "none"),
          MkSentence("!", <<"I","I">>, GGA, 1, "ok"),
          MkSentence("$", <<"I","I">>, XYZ, 1, "ok"),
          MkSentence("$", <<"I","I">>, DPT, 1, "ok")}

\* createPacket(getNmeaSentence(id)) of the tests: the packets a caller of
\* actor.send can build with the strict parser.
CreatedPackets ==
    {StrictDecode[s].packet : s \in {nmeaSentences_GGA, nmeaSentences_GLL}}

-----------------------------------------------------------------------------
(* The steps of the system *)

\* No text has been piped through a LineBreakTransformer.
NoLineStream ==
    [text |-> <<>>, rest |-> <<>>, container |-> <<>>, lines |-> <<>>,
     closed |-> FALSE]

\* createActor(machine).start() by the owner of the machine: an active
\* actor without a client.
NoClient ==
    /\ status = "active"
    /\ subscription = null
    /\ called = NoCalls

Init ==
    /\ state = "disconnected"
    /\ port = null
    /\ error = null
    /\ packets = initialPackets
    /\ data = initialData
    /\ enableLogging = FALSE
    /\ baudRate = DefaultBaudRate
    /\ allowedSentenceIds \in AllowLists
    /\ streamReader = "none"
    /\ session = initialPackets
    /\ lastEvent = "xstate.init"
    /\ externalVariation = Undefined
    /\ timeZone = ZoneUTC
    /\ NoClient
    /\ lineStream = NoLineStream
    /\ sentence = <<>>
    /\ decoded = [strict |-> NotDecoded, unsafe |-> NotDecoded]

\* client.connect()
Connect == Receive(ConnectEvent)

\* client.disconnect()
Disconnect == Receive(DisconnectEvent)

\* client.setLogging(enabled)
SetLogging == \E b \in BOOLEAN : Receive(SetLoggingEvent(b))

\* client.setBaudRate(baudRate)
SetBaudRate == \E r \in BaudRates : Receive(SetBaudRateEvent(r))

\* connectToSerial resolves with the port the user picked.
ConnectToSerialDone ==
    /\ state = "connecting"
    /\ \E p \in Ports :
          Receive([type |-> "xstate.done.actor.connectToSerial", output |-> p])

\* connectToSerial rejects.
ConnectToSerialError ==
    /\ state = "connecting"
    /\ \E e \in ConnectFailures :
          Receive([type |-> "xstate.error.actor.connectToSerial", error |-> e])

\* closePort resolves (it catches what port.close() throws).
ClosePortDone ==
    /\ state = "disconnecting"
    /\ Receive([type |-> "xstate.done.actor.closePort"])

\* `Parser Error: ${error.message}`
ParserError(message) ==
    CASE message = "Invalid sentence" -> "Parser Error: Invalid sentence"
      [] message = "No known parser for sentence ID" ->
            "Parser Error: No known parser for sentence ID"

\* Variant: a read loop without the `continue` on sentenceId "?", sending
\* every packet back.
SendBackUnknownToo(line) ==
    LET result == UnsafeDecode[line]
    IN  IF ~result.ok
        THEN <<SerialError(ParserError(result.error))>>
        ELSE <<SerialData(result.packet)>>

\* What the read loop sends back for one line: nothing for an unknown packet,
\* SERIAL.DATA for any other packet, SERIAL.ERROR when the parser throws.
SendBackFor(line) ==
    LET result == UnsafeDecode[line]
    IN  IF ~result.ok
        THEN <<SerialError(ParserError(result.error))>>
        ELSE IF result.packet.sentenceId = UnknownId THEN <<>>
        ELSE <<SerialData(result.packet)>>

\* The `continue` of readLoop on an unknown packet: nothing is sent back, the
\* machine is left as it is (the history records the skipped line).
Continue ==
    /\ lastEvent' = "readLoop continue"
    /\ called' = NoCalls
    /\ UNCHANGED <<state, port, error, packets, data, enableLogging, baudRate,
                   allowedSentenceIds, streamReader, session, sentence, decoded,
                   navVars, lineStream, status, subscription>>

\* One iteration of readLoop on a line: parse, then sendBack or continue.
Read(line) ==
    IF SendBackFor(line) = <<>>
    THEN Continue
    ELSE Receive(SendBackFor(line)[1])

\* What the read loop sends back for each line of the stream.
StreamSendBacks == {<<line, SendBackFor(line)>> : line \in StreamLines}

ReadLine ==
    /\ streamReader = "reading"
    /\ \E lb \in StreamSendBacks :
          IF lb[2] = <<>>
          THEN Continue
          ELSE Receive(lb[2][1])

\* reader.read() reports done (the stream closed, or was cancelled after
\* STOP); a rejection after STOP ends the same way: finally sends
\* SERIAL.DISCONNECTED.
ReadDone ==
    /\ streamReader \in {"reading", "stopping"}
    /\ Receive(SerialDisconnected)

\* Variant: the read loop sends SERIAL.DISCONNECTED before FATAL_ERROR.
ReadFatalDisconnectedFirst ==
    /\ streamReader = "reading"
    /\ \E e \in FatalErrorMessages :
          LET mid == transition(state, Context, SerialDisconnected)
              to  == transition(mid.value, mid.context, FatalError(e))
          IN  /\ state' = to.value
              /\ port' = to.context.port
              /\ error' = to.context.error
              /\ packets' = to.context.packets
              /\ data' = to.context.data
              /\ enableLogging' = to.context.enableLogging
              /\ baudRate' = to.context.baudRate
              /\ streamReader' = "none"
              /\ session' = session
              /\ lastEvent' = "FATAL_ERROR"
              /\ called' = Notified(to.value, to.context)
              /\ UNCHANGED <<allowedSentenceIds, sentence, decoded, navVars,
                             lineStream, status, subscription>>

\* reader.read() rejects while keepReading: catch sends FATAL_ERROR and
\* finally SERIAL.DISCONNECTED, which finds the machine in error.
ReadFatal ==
    /\ streamReader = "reading"
    /\ \E e \in FatalErrorMessages :
          LET mid == transition(state, Context, FatalError(e))
              to  == transition(mid.value, mid.context, SerialDisconnected)
          IN  /\ state' = to.value
              /\ port' = to.context.port
              /\ error' = to.context.error
              /\ packets' = to.context.packets
              /\ data' = to.context.data
              /\ enableLogging' = to.context.enableLogging
              /\ baudRate' = to.context.baudRate
              /\ streamReader' = "none"
              /\ session' = session
              /\ lastEvent' = "FATAL_ERROR"
              /\ called' = Notified(to.value, to.context)
              /\ UNCHANGED <<allowedSentenceIds, sentence, decoded, navVars, lineStream,
                             status, subscription>>

\* actor.send of a serial event by the owner of the actor, as the tests do.
SendSerialEvent ==
    \/ \E p \in CreatedPackets : Receive(SerialData(p))
    \/ \E e \in SerialErrorMessages : Receive(SerialError(e))
    \/ \E e \in FatalErrorMessages : Receive(FatalError(e))
    \/ Receive(SerialDisconnected)

Next ==
    \/ Connect
    \/ Disconnect
    \/ SetLogging
    \/ SetBaudRate
    \/ ConnectToSerialDone
    \/ ConnectToSerialError
    \/ ClosePortDone
    \/ ReadLine
    \/ ReadDone
    \/ ReadFatal
    \/ SendSerialEvent

Spec == Init /\ [][Next]_vars

\* The machine behind the client: the events come from the client's methods
\* and from the invoked actors only.
NextClient ==
    \/ Connect
    \/ Disconnect
    \/ SetLogging
    \/ SetBaudRate
    \/ ConnectToSerialDone
    \/ ConnectToSerialError
    \/ ClosePortDone
    \/ ReadLine
    \/ ReadDone
    \/ ReadFatal

\* reader.cancel() after STOP makes the pending read() report done, so the
\* reader that was told to stop does send SERIAL.DISCONNECTED; closePort is
\* a promise that settles.
SpecFair ==
    /\ Init
    /\ [][NextClient]_vars
    /\ WF_vars(streamReader = "stopping" /\ ReadDone)
    /\ WF_vars(ClosePortDone)

\* new NmeaClient(machine, { onData, onStateChange, onError }): the actor is
\* created, subscribed to and started; start() hands the initial snapshot to
\* the subscriber.
InitClient ==
    /\ state = "disconnected"
    /\ port = null
    /\ error = null
    /\ packets = initialPackets
    /\ data = initialData
    /\ enableLogging = FALSE
    /\ baudRate = DefaultBaudRate
    /\ allowedSentenceIds = Undefined
    /\ streamReader = "none"
    /\ session = initialPackets
    /\ lastEvent = "xstate.init"
    /\ externalVariation = Undefined
    /\ timeZone = ZoneUTC
    /\ status = "active"
    /\ subscription = "subscribed"
    /\ lineStream = NoLineStream
    /\ called = Callbacks("disconnected",
                          [port |-> null, error |-> null, packets |-> initialPackets,
                           data |-> initialData, enableLogging |-> FALSE,
                           baudRate |-> DefaultBaudRate])
    /\ sentence = <<>>
    /\ decoded = [strict |-> NotDecoded, unsafe |-> NotDecoded]

\* client.dispose(): the subscription is removed and the actor stopped, which
\* stops its invoked actors; on a disposed client neither does anything.
Dispose ==
    /\ subscription' = null
    /\ status' = "stopped"
    /\ streamReader' = IF status = "active" THEN "none" ELSE streamReader
    /\ lastEvent' = IF status = "active" THEN "dispose" ELSE lastEvent
    /\ called' = NoCalls
    /\ UNCHANGED <<state, port, error, packets, data, enableLogging, baudRate,
                   allowedSentenceIds, session, sentence, decoded, navVars,
                   lineStream>>

\* The client and the actor it exposes through client.machine.
NextDisposable ==
    \/ Next
    \/ Dispose

SpecClient == InitClient /\ [][NextDisposable]_vars

-----------------------------------------------------------------------------
(* src/core/index.ts LineBreakTransformer *)

\* String.prototype.split('\r\n'): the segments between the occurrences of
\* the separator, found from left to right.
RECURSIVE SplitCRLF(_)
SplitCRLF(s) ==
    LET at == {i \in 1..(Len(s) - 1) : s[i] = "\r" /\ s[i + 1] = "\n"}
    IN  IF at = {} THEN <<s>>
        ELSE LET i == CHOOSE j \in at : \A k \in at : j <= k
             IN  <<SubSeq(s, 1, i - 1)>> \o SplitCRLF(SubSeq(s, i + 2, Len(s)))

\* lines.forEach(line => { if (line.length > 0) controller.enqueue(line) })
NonEmptyLines(lines) == SelectSeq(lines, LAMBDA line : Len(line) > 0)

\* Variant: every element of the split is enqueued, the last one too, and
\* nothing is kept for the next chunk.
transformNoBuffer(container, chunk) ==
    LET lines == SplitCRLF(container \o chunk)
    IN  [container |-> <<>>, enqueued |-> NonEmptyLines(lines)]

\* transform(chunk, controller): the container after the chunk and the lines
\* enqueued for it.
transform(container, chunk) ==
    LET lines == SplitCRLF(container \o chunk)
    IN  [container |-> lines[Len(lines)],
         enqueued |-> NonEmptyLines(SubSeq(lines, 1, Len(lines) - 1))]

\* Variant: at close the text left in the container is enqueued as a line.
flushEmitRemainder(container) ==
    [container |-> <<>>, enqueued |-> NonEmptyLines(<<container>>)]

\* flush(controller): the container is reset and nothing is enqueued.
flush(container) == [container |-> <<>>, enqueued |-> <<>>]

\* The texts a port may deliver, over carriage return, line feed and one
\* other character.
RECURSIVE TextsOfLength(_)
TextsOfLength(n) ==
    IF n = 0 THEN {<<>>}
    ELSE {Append(t, c) : t \in TextsOfLength(n - 1), c \in {"\r", "\n", "$"}}

Texts == UNION {TextsOfLength(n) : n \in 0..MaxTextLen}

\* A text is about to be piped through a new LineBreakTransformer.
InitLines ==
    /\ state = "disconnected"
    /\ port = null
    /\ error = null
    /\ packets = initialPackets
    /\ data = initialData
    /\ enableLogging = FALSE
    /\ baudRate = DefaultBaudRate
    /\ allowedSentenceIds = Undefined
    /\ streamReader = "none"
    /\ session = initialPackets
    /\ lastEvent = "xstate.init"
    /\ externalVariation = Undefined
    /\ timeZone = ZoneUTC
    /\ NoClient
    /\ sentence = <<>>
    /\ decoded = [strict |-> NotDecoded, unsafe |-> NotDecoded]
    /\ \E t \in Texts :
          lineStream = [text |-> t, rest |-> t, container |-> <<>>,
                        lines |-> <<>>, closed |-> FALSE]

\* The stream hands the transformer the next chunk, of any length.
Transform ==
    /\ ~lineStream.closed
    /\ \E n \in 1..Len(lineStream.rest) :
          LET chunk == SubSeq(lineStream.rest, 1, n)
              after == transform(lineStream.container, chunk)
          IN  lineStream' =
                  [lineStream EXCEPT
                      !.rest = SubSeq(lineStream.rest, n + 1, Len(lineStream.rest)),
                      !.container = after.container,
                      !.lines = lineStream.lines \o after.enqueued]

\* The stream closes after its last chunk.
Flush ==
    /\ ~lineStream.closed
    /\ lineStream.rest = <<>>
    /\ LET after == flush(lineStream.container)
       IN  lineStream' =
               [lineStream EXCEPT !.container = after.container,
                                  !.lines = lineStream.lines \o after.enqueued,
                                  !.closed = TRUE]

NextLines ==
    /\ \/ Transform
       \/ Flush
    /\ UNCHANGED <<machineVars, parserVars, navVars, clientVars>>

SpecLines == InitLines /\ [][NextLines]_vars

\* The parser harness alone: the machine stays as created.
InitParserSpec ==
    /\ state = "disconnected"
    /\ port = null
    /\ error = null
    /\ packets = initialPackets
    /\ data = initialData
    /\ enableLogging = FALSE
    /\ baudRate = DefaultBaudRate
    /\ allowedSentenceIds = Undefined
    /\ streamReader = "none"
    /\ session = initialPackets
    /\ lastEvent = "xstate.init"
    /\ externalVariation = Undefined
    /\ timeZone = ZoneUTC
    /\ NoClient
    /\ lineStream = NoLineStream
    /\ InitParser

NextParser ==
    /\ \/ DecodeStrict
       \/ DecodeUnsafe
       \/ NextSentence
    /\ UNCHANGED <<machineVars, navVars, lineStream, clientVars>>

SpecParser == InitParserSpec /\ [][NextParser]_vars

\* The navigation adapter alone: a machine created by
\* createNavigationNmeaMachine(options) holds some cache, and storePacket
\* applies the adapter to it.
InitNavigation ==
    /\ state = "connected"
    /\ port = "port1"
    /\ error = null
    /\ packets \in NavigationCaches
    /\ data = initialNavigationData
    /\ enableLogging = FALSE
    /\ baudRate = DefaultBaudRate
    /\ allowedSentenceIds = Defined(NAVIGATION_SENTENCE_IDS)
    /\ streamReader = "reading"
    /\ session = initialNavigationPackets
    /\ lastEvent = "createNavigationNmeaMachine"
    /\ externalVariation \in ExternalVariations
    /\ timeZone \in TimeZones
    /\ NoClient
    /\ lineStream = NoLineStream
    /\ sentence = nmeaSentences_GGA
    /\ decoded = [strict |-> NotDecoded, unsafe |-> NotDecoded]

\* data: adapter(newPackets) of storePacket, with the navigation adapter.
ApplyNavigationAdapter ==
    /\ lastEvent = "createNavigationNmeaMachine"
    /\ data' = navigationAdapter(externalVariation, timeZone, packets)
    /\ lastEvent' = "adapter"
    /\ UNCHANGED <<state, port, error, packets, enableLogging, baudRate,
                   allowedSentenceIds, streamReader, session, sentence, decoded,
                   navVars, lineStream, clientVars>>

NextNavigation == ApplyNavigationAdapter

SpecNavigation == InitNavigation /\ [][NextNavigation]_vars

-----------------------------------------------------------------------------
(* Vocabulary of the properties *)

\* The packets a SERIAL.DATA event may carry: what the read loop sends back
\* for the lines of the stream, and the packets built by createPacket.
StreamPackets ==
    {UnsafeDecode[l].packet :
        l \in {m \in StreamLines :
                 UnsafeDecode[m].ok /\ UnsafeDecode[m].packet.sentenceId # UnknownId}}

DataPackets == StreamPackets \cup CreatedPackets

DataLabels ==
    {"SERIAL.DATA stored", "SERIAL.DATA replaced", "SERIAL.DATA filtered"}

\* The configured allow-list names at least one id / names id.
ListConfigured ==
    ~allowedSentenceIds.undefined /\ allowedSentenceIds.value # <<>>

Listed(id) ==
    \E i \in DOMAIN allowedSentenceIds.value : allowedSentenceIds.value[i] = id

\* The machine accepts packets of sentence id `id` into the cache.
Accepts(id) == ~ListConfigured \/ Listed(id)

\* The wire format: "*" followed by exactly two characters ends the sentence,
\* and those characters are the hex rendering (in either case) of the XOR of
\* the bytes between the start marker and the "*".
HasDelimiter(s) == Len(s) >= 3 /\ s[Len(s) - 2] = "*"

ChecksumMatches(s) ==
    /\ HasDelimiter(s)
    /\ LET sum == WireChecksum(SubSeq(s, 1, Len(s) - 3))
           hex == SubSeq(s, Len(s) - 1, Len(s))
       IN  hex \in {Hex2(sum, HexDigits), Hex2(sum, LowerHexDigits)}

\* Sentences carrying a checksum that does not match their body.
Mismatched == {s \in Sentences : HasDelimiter(s) /\ ~ChecksumMatches(s)}

\* The 3-letter suffix of the leading token (the text before the first ",").
IdSuffix(s) ==
    LET comma == CHOOSE k \in 1..Len(s) :
                    s[k] = "," /\ \A j \in 1..(k - 1) : s[j] # ","
    IN  SubSeq(s, comma - 3, comma - 1)

\* The identifiers the parser is documented to recognise: the built-in ones
\* and the three custom depth sentences.
RecognisedIds == BuiltinIds \cup {DPT, DBS, DBK}

\* Well-formed sentences of a two-letter talker with a correct checksum and a
\* recognised identifier.
ValidRecognised ==
    {MkSentence("$", tk, id, i, ck) :
        tk \in {<<"I","I">>, <<"G","P">>}, id \in SentenceIds \cap RecognisedIds,
        i \in 1..NumPayloads, ck \in {"ok", "lower"}}

\* The malformed lines of the stream: a checksum mismatch, no checksum
\* delimiter, a wrong start marker.
MalformedLines ==
    {MkSentence("$", <<"G","P">>, GGA, 1, "bad"),
     MkSentence("$", <<"G","P">>, GGA, 1, "none"),
     MkSentence("!", <<"I","I">>, GGA, 1, "ok")}

-----------------------------------------------------------------------------
(* Properties of the packet cache and the machine (specification Spec) *)

\* C1: the cache is last-write-wins per sentence id.  In connected, every id
\* accepted in this session maps to the most recently received packet with
\* that id, whole; and handling SERIAL.DATA with id X stores the packet under
\* X when X is accepted and leaves every entry of another id as it was.
C1_LastWriteWins ==
    /\ [](state = "connected" =>
            \A id \in DOMAIN session :
                id \in DOMAIN packets /\ packets[id] = session[id])
    /\ [][\A p \in DataPackets :
            (state = "connected" /\ Receive(SerialData(p))) =>
                /\ Accepts(p.sentenceId) =>
                      /\ p.sentenceId \in DOMAIN packets'
                      /\ packets'[p.sentenceId] = p
                /\ \A k \in (DOMAIN packets \cup DOMAIN packets') \ {p.sentenceId} :
                      /\ k \in DOMAIN packets
                      /\ k \in DOMAIN packets'
                      /\ packets'[k] = packets[k]]_vars

\* A packet has just replaced a different packet of its id while another id
\* is in the cache.
C1_Witness ==
    /\ state = "connected"
    /\ lastEvent = "SERIAL.DATA replaced"
    /\ Cardinality(DOMAIN packets) >= 2
    /\ packets = session

\* C2: with a configured allow-list, SERIAL.DATA whose sentence id is not in
\* the list leaves the cache as it was (nothing added, removed or replaced)
\* and data is the adapter's result on that unchanged cache.
C2_FilteredLeavesCache ==
    [][\A p \in DataPackets :
          (/\ state = "connected"
           /\ ListConfigured
           /\ ~Listed(p.sentenceId)
           /\ Receive(SerialData(p))) =>
              /\ packets' = packets
              /\ data' = adapter(packets)
              /\ state' = "connected"]_vars

\* A GLL packet was filtered by the list ['GGA', 'RMC'] with packets cached.
C2_Witness ==
    /\ state = "connected"
    /\ ListConfigured
    /\ lastEvent = "SERIAL.DATA filtered"
    /\ packets # initialPackets
    /\ GLL \notin DOMAIN packets
    /\ data = adapter(packets)

\* C3: an absent and an empty allow-list accept every sentence id: with
\* either, SERIAL.DATA with a defined sentence id handled in connected is
\* stored in the cache under its id.
C3_AbsentOrEmptyAcceptsAll ==
    [][\A p \in DataPackets :
          (/\ state = "connected"
           /\ allowedSentenceIds \in {Undefined, Defined(<<>>)}
           /\ p.sentenceId # <<>>
           /\ Receive(SerialData(p))) =>
              /\ p.sentenceId \in DOMAIN packets'
              /\ packets'[p.sentenceId] = p]_vars

\* Under the empty allow-list, packets of three ids are in the cache.
C3_Witness ==
    /\ state = "connected"
    /\ allowedSentenceIds = Defined(<<>>)
    /\ lastEvent = "SERIAL.DATA stored"
    /\ DOMAIN packets = {GGA, RMC, GLL}

\* C4: data is a projection of the cache.  After SERIAL.DATA handled in
\* connected (stored or filtered) data = adapter(packets), and in every
\* state data is adapter(packets), or initialData with the initial packets.
C4_DataIsProjection ==
    /\ lastEvent \in DataLabels => data = adapter(packets)
    /\ \/ data = adapter(packets)
       \/ data = initialData /\ packets = initialPackets

\* Data derived from a cache of three packets after a replacement.
C4_Witness ==
    /\ lastEvent = "SERIAL.DATA replaced"
    /\ Cardinality(DOMAIN packets) = 3
    /\ data = [count |-> 3]

\* C5: in disconnected, the port and the error are null and the cache and
\* the data are the configured initial ones.
C5_DisconnectedIsReset ==
    state = "disconnected" =>
        /\ port = null
        /\ error = null
        /\ packets = initialPackets
        /\ data = initialData

\* Back in disconnected after a session in which packets were accepted.
C5_Witness ==
    /\ state = "disconnected"
    /\ lastEvent = "xstate.done.actor.closePort"
    /\ session # initialPackets

\* C6: each time the machine enters connected, by any path, the cache and
\* the data are the configured initial ones.
C6_SessionStartsEmpty ==
    (state = "connected" /\ lastEvent = "xstate.done.actor.connectToSerial") =>
        /\ packets = initialPackets
        /\ data = initialData

\* C7: SERIAL.ERROR handled in connected sets the error to the reported
\* message and leaves the state, the cache, the data and the port unchanged.
C7_SerialErrorIsLocal ==
    [][\A e \in SerialErrorMessages :
          (state = "connected" /\ Receive(SerialError(e))) =>
              /\ state' = "connected"
              /\ error' = e
              /\ packets' = packets
              /\ data' = data
              /\ port' = port]_vars

\* An error was reported while packets were cached.
C7_Witness ==
    /\ state = "connected"
    /\ lastEvent = "SERIAL.ERROR"
    /\ error \in SerialErrorMessages
    /\ packets # initialPackets
    /\ port # null

\* C8: a malformed line (wrong start marker, no checksum delimiter, checksum
\* mismatch) read by the reader while connected makes no SERIAL.DATA and
\* leaves the cache as it was.
C8_MalformedLineKeepsCache ==
    [][\A line \in MalformedLines :
          (state = "connected" /\ streamReader = "reading" /\ Read(line)) =>
              /\ \A i \in DOMAIN SendBackFor(line) :
                    SendBackFor(line)[i].type # "SERIAL.DATA"
              /\ packets' = packets]_vars

-----------------------------------------------------------------------------
(* Properties of the parser (specification SpecParser) *)

C10_StrictDecodesRecognised ==
    (sentence \in ValidRecognised /\ decoded.strict # NotDecoded) =>
        /\ decoded.strict[1].ok
        /\ decoded.strict[1].packet.sentenceId = IdSuffix(sentence)

-----------------------------------------------------------------------------
(* Dispatch and the talker prefix *)

\* Sentences that differ only in their two-letter talker (and in the checksum
\* that covers it), one family per start marker, identifier, payload and
\* checksum kind.
TalkerFamilies ==
    {[tk \in TwoLetterTalkers |-> MkSentence(st, tk, id, i, ck)] :
        st \in Starts, id \in SentenceIds, i \in 1..NumPayloads,
        ck \in ChecksumKinds}

\* The families of well-formed sentences with a correct checksum and a
\* recognised identifier, built-in or custom.
RecognisedFamilies ==
    {[tk \in TwoLetterTalkers |-> MkSentence("$", tk, id, i, ck)] :
        id \in SentenceIds \cap RecognisedIds, i \in 1..NumPayloads,
        ck \in {"ok", "lower"}}

\* What a decode is dispatched to: the sentenceId of the packet made, or no
\* packet.
Dispatched(result) ==
    [ok |-> result.ok, id |-> IF result.ok THEN result.packet.sentenceId ELSE <<>>]

\* Sentences that differ only in talker get the same dispatch in both modes.
SameDispatchAcrossTalkers ==
    \A fam \in TalkerFamilies : \A tk \in TwoLetterTalkers :
        sentence = fam[tk] =>
            /\ decoded.strict # NotDecoded =>
                   \A other \in TwoLetterTalkers :
                       Dispatched(StrictDecode[fam[other]]) = Dispatched(decoded.strict[1])
            /\ decoded.unsafe # NotDecoded =>
                   \A other \in TwoLetterTalkers :
                       Dispatched(UnsafeDecode[fam[other]]) = Dispatched(decoded.unsafe[1])

\* The decoder a sentence reaches is the one of its identifier, in both modes.
DispatchedByIdentifier ==
    \A fam \in RecognisedFamilies : \A tk \in TwoLetterTalkers :
        sentence = fam[tk] =>
            /\ decoded.strict # NotDecoded =>
                   Dispatched(decoded.strict[1]) = [ok |-> TRUE, id |-> IdSuffix(sentence)]
            /\ decoded.unsafe # NotDecoded =>
                   Dispatched(decoded.unsafe[1]) = [ok |-> TRUE, id |-> IdSuffix(sentence)]

\* C11: sentence-type dispatch depends only on the sentence identifier, never
\* on the talker prefix: sentences that differ only in talker (II, GP, HC) are
\* dispatched to the same decoder, the one of their identifier, and give
\* packets with the same sentenceId, for built-in and custom identifiers, in
\* strict and in permissive mode.
C11_DispatchBySentenceIdOnly ==
    SameDispatchAcrossTalkers /\ DispatchedByIdentifier

-----------------------------------------------------------------------------
(* Round trip of the custom depth sentences *)

\* The three numeric fields of a custom depth packet, in field order.
DepthFields(packet) ==
    IF packet.sentenceId = DPT
    THEN <<packet.depthMeters, packet.offsetMeters, packet.maximumRangeScale>>
    ELSE <<packet.depthFeet, packet.depthMeters, packet.depthFathoms>>

\* The decode gave back a packet of the sentence's type with the values the
\* sentence was built from.
RoundTrips(result, rt) ==
    /\ result.ok
    /\ result.packet.sentenceId = rt.id
    /\ DepthFields(result.packet) = rt.values

\* C12: decoding a DPT, DBS or DBK sentence built from known numeric values
\* yields a packet of that sentence type whose fields equal those values,
\* taken positionally (DPT: depthMeters, offsetMeters, maximumRangeScale from
\* fields 1, 2, 3; DBS and DBK: depthFeet, depthMeters, depthFathoms from
\* fields 1, 3, 5).
C12_DepthRoundTrip ==
    \A rt \in DepthRoundTrips :
        sentence = rt.text =>
            /\ decoded.strict # NotDecoded => RoundTrips(decoded.strict[1], rt)
            /\ decoded.unsafe # NotDecoded => RoundTrips(decoded.unsafe[1], rt)

-----------------------------------------------------------------------------
(* Unknown sentences and the cache *)

\* The lines of the stream whose identifier has no built-in decoder: an
\* unrecognised one (XYZ) and a custom one (DPT), for which
\* assembleExtendedNmeaPacket answers "not handled".
PlaceholderLines ==
    {line \in StreamLines :
        HasDelimiter(line) /\ IdSuffix(line) \notin BuiltinIds}

\* The cache has no entry keyed "?" and none of its entries is a placeholder.
NoPlaceholderCached ==
    /\ UnknownId \notin DOMAIN packets
    /\ \A id \in DOMAIN packets : packets[id].sentenceId # UnknownId

\* C13: an unknown sentence type never reaches the cache: permissive decoding
\* of an unrecognised identifier (or of one whose custom decoder answers "not
\* handled") yields a placeholder packet with sentenceId "?", the stream
\* reader sends back neither SERIAL.DATA nor SERIAL.ERROR for it, reading it
\* leaves the machine's context as it was, and in every reachable state the
\* cache has no entry keyed "?" and no entry holding a placeholder packet.
C13_UnknownNeverCached ==
    /\ [](/\ NoPlaceholderCached
          /\ \A line \in PlaceholderLines :
                /\ UnsafeDecode[line].ok
                /\ UnsafeDecode[line].packet.sentenceId = UnknownId
                /\ SendBackFor(line) = <<>>)
    /\ [][\A line \in PlaceholderLines :
            (streamReader = "reading" /\ Read(line)) =>
                UNCHANGED <<state, port, error, packets, data, session>>]_vars

\* A placeholder line was just skipped by the reader of a session whose cache
\* holds packets.
C13_Witness ==
    /\ state = "connected"
    /\ streamReader = "reading"
    /\ lastEvent = "readLoop continue"
    /\ DOMAIN packets # {}
    /\ PlaceholderLines # {}

-----------------------------------------------------------------------------
(* Derived navigation data *)

\* The adapter has been applied to the cache.
Applied == lastEvent = "adapter"

Cached(id) == id \in DOMAIN packets

\* The conditions under which a packet of the cache is usable as a source.
GgaHasFix == Cached(GGA) /\ packets[GGA].fixType # "none"
RmcIsValid == Cached(RMC) /\ packets[RMC].status = "valid"
GllIsValid == Cached(GLL) /\ packets[GLL].status = "valid"

\* C14: derived position uses first-match priority with no merging across
\* sources: the GGA packet if cached with a fixType other than 'none' (its
\* coordinates, source GGA, fixType, altitude, satellite count, horizontal
\* dilution); else the RMC packet if cached with status 'valid' (its
\* coordinates, source RMC); else the GLL packet if cached with status 'valid'
\* (its coordinates, source GLL); else null.
C14_PositionPriority ==
    Applied =>
        /\ GgaHasFix =>
               data.position =
                   [latitude |-> packets[GGA].latitude,
                    longitude |-> packets[GGA].longitude, source |-> "GGA",
                    fixType |-> packets[GGA].fixType,
                    altitudeMeters |-> packets[GGA].altitudeMeters,
                    satellitesInView |-> packets[GGA].satellitesInView,
                    horizontalDilution |-> packets[GGA].horizontalDilution]
        /\ (~GgaHasFix /\ RmcIsValid) =>
               data.position =
                   [latitude |-> packets[RMC].latitude,
                    longitude |-> packets[RMC].longitude, source |-> "RMC",
                    status |-> "valid"]
        /\ (~GgaHasFix /\ ~RmcIsValid /\ GllIsValid) =>
               data.position =
                   [latitude |-> packets[GLL].latitude,
                    longitude |-> packets[GLL].longitude, source |-> "GLL",
                    status |-> "valid"]
        /\ (~GgaHasFix /\ ~RmcIsValid /\ ~GllIsValid) => data.position = Null

\* A GGA without a fix is cached next to a valid RMC and a valid GLL, and
\* the position is the RMC's.
C14_Witness ==
    /\ Applied
    /\ Cached(GGA) /\ ~GgaHasFix
    /\ RmcIsValid
    /\ GllIsValid
    /\ data.position.source = "RMC"
    /\ data.position.latitude # packets[GGA].latitude

\* C15: derived time uses the priority ZDA, then GGA (fixType not 'none'),
\* then RMC (status 'valid'), then GLL (status 'valid'), else null; utc is the
\* time of the source packet, and local is non-null if and only if the source
\* is ZDA: every time sourced from GGA, RMC or GLL has local equal to null.
C15_TimePriority ==
    Applied =>
        /\ Cached(ZDA) =>
               /\ data.time.source = "ZDA"
               /\ data.time.utc = packets[ZDA].datetime
        /\ (~Cached(ZDA) /\ GgaHasFix) =>
               data.time = [utc |-> packets[GGA].time, local |-> Null, source |-> "GGA"]
        /\ (~Cached(ZDA) /\ ~GgaHasFix /\ RmcIsValid) =>
               data.time = [utc |-> packets[RMC].datetime, local |-> Null, source |-> "RMC"]
        /\ (~Cached(ZDA) /\ ~GgaHasFix /\ ~RmcIsValid /\ GllIsValid) =>
               data.time = [utc |-> packets[GLL].time, local |-> Null, source |-> "GLL"]
        /\ (~Cached(ZDA) /\ ~GgaHasFix /\ ~RmcIsValid /\ ~GllIsValid) =>
               data.time = Null
        /\ data.time # Null =>
               (data.time.local # Null <=> data.time.source = "ZDA")

\* No ZDA is cached, GGA has no fix, RMC and GLL are valid: the time is the
\* RMC's, without a local time.
C15_Witness ==
    /\ Applied
    /\ ~Cached(ZDA)
    /\ Cached(GGA) /\ ~GgaHasFix
    /\ RmcIsValid
    /\ GllIsValid
    /\ data.time.source = "RMC"
    /\ data.time.utc = packets[RMC].datetime
    /\ data.time.local = Null

\* The ZDA datetime moved by the zone fields of the packet.
ZdaLocalTime ==
    Date(packets[ZDA].datetime.minutes + (packets[ZDA].localZoneHours * 60)
            + packets[ZDA].localZoneMinutes,
         packets[ZDA].datetime.ms)

\* C16: when time is sourced from ZDA, local time equals the ZDA UTC datetime
\* plus (localZoneHours*60 + localZoneMinutes) minutes, for every combination
\* of signed zone hours and zone minutes, and utc is the ZDA datetime
\* unchanged (UTC 16:00:12.71 with zone -1h00m gives local 15:00:12.71).
C16_ZdaLocalIsUtcPlusZone ==
    (Applied /\ Cached(ZDA)) =>
        /\ data.time.source = "ZDA"
        /\ data.time.utc = packets[ZDA].datetime
        /\ data.time.local = ZdaLocalTime

\* C17: derived speed is the VTG speedKnots with source VTG whenever a VTG
\* packet is cached, whatever the RMC; otherwise the RMC speedKnots with
\* source RMC if RMC is cached with status 'valid'; otherwise null.
C17_SpeedPriority ==
    Applied =>
        /\ Cached(VTG) =>
               data.speed = [knots |-> packets[VTG].speedKnots, source |-> "VTG"]
        /\ (~Cached(VTG) /\ RmcIsValid) =>
               data.speed = [knots |-> packets[RMC].speedKnots, source |-> "RMC"]
        /\ (~Cached(VTG) /\ ~RmcIsValid) => data.speed = Null

\* VTG is cached next to a valid RMC with another speed, and the speed is
\* the VTG's.
C17_Witness ==
    /\ Applied
    /\ Cached(VTG)
    /\ RmcIsValid
    /\ packets[RMC].speedKnots # packets[VTG].speedKnots
    /\ data.speed = [knots |-> packets[VTG].speedKnots, source |-> "VTG"]

\* The conditions under which a packet of the cache supplies a heading or a
\* course over ground.
HdtHasHeading == Cached(HDT) /\ ~packets[HDT].heading.undefined
HdgHasHeading == Cached(HDG) /\ ~packets[HDG].heading.undefined
RmcHasTrack == Cached(RMC) /\ ~packets[RMC].trackTrue.undefined
VtgHasTrack == Cached(VTG) /\ ~packets[VTG].trackTrue.undefined

C19_HdgVariationSign ==
    (Applied /\ ~HdtHasHeading /\ HdgHasHeading) =>
        /\ data.heading.source = "HDG"
        /\ data.heading.isDerived = FALSE
        /\ packets[HDG].variationDirection = "W" =>
               data.heading.degreesTrue =
                   packets[HDG].heading.value - packets[HDG].variation
        /\ packets[HDG].variationDirection \in {"E", ""} =>
               data.heading.degreesTrue =
                   packets[HDG].heading.value + packets[HDG].variation

\* The heading comes from an HDG packet with heading 98.3 and variation
\* 12.6 W, and is 85.7, not derived.
C19_Witness ==
    /\ Applied
    /\ ~HdtHasHeading
    /\ HdgHasHeading
    /\ packets[HDG].heading.value = 983
    /\ packets[HDG].variation = 126
    /\ packets[HDG].variationDirection = "W"
    /\ data.heading = [degreesTrue |-> 857, source |-> "HDG", isDerived |-> FALSE]

\* C20: the navigation adapter's heading priority is HDT, then HDG, then HDM
\* with the external variation, then COG: when the cache holds an HDM packet,
\* no usable HDT or HDG, and the machine was created with an
\* externalVariation, the derived heading is the HDM magnetic heading
\* corrected by that variation, in preference to course over ground, and the
\* configured externalVariation makes a difference to the derived data.
C20_HdmWithExternalVariation ==
    (Applied /\ Cached(HDM) /\ ~HdtHasHeading /\ ~HdgHasHeading
        /\ ~externalVariation.undefined) =>
        /\ data.heading # Null
        /\ data.heading.degreesTrue =
               packets[HDM].heading + externalVariation.value
        /\ data.heading.isDerived = FALSE
        /\ data # navigationAdapter(Undefined, timeZone, packets)

\* The conditions under which a custom depth packet supplies a depth.
DptHasDepth == Cached(DPT) /\ ~packets[DPT].depthMeters.undefined
DbsHasDepth == Cached(DBS) /\ ~packets[DBS].depthMeters.undefined
DbkHasDepth == Cached(DBK) /\ ~packets[DBK].depthMeters.undefined

\* C21: derived depth uses the priority DPT (depthMeters defined), then DBT,
\* then DBS (depthMeters defined), then DBK (depthMeters defined), else null,
\* and the source tag names the packet that supplied the value; a cached DPT
\* packet with a defined depth always wins over DBT, DBS and DBK.
C21_DepthPriority ==
    Applied =>
        /\ DptHasDepth =>
               data.depth = [meters |-> packets[DPT].depthMeters.value, source |-> "DPT"]
        /\ (~DptHasDepth /\ Cached(DBT)) =>
               data.depth = [meters |-> packets[DBT].depthMeters, source |-> "DBT"]
        /\ (~DptHasDepth /\ ~Cached(DBT) /\ DbsHasDepth) =>
               data.depth = [meters |-> packets[DBS].depthMeters.value, source |-> "DBS"]
        /\ (~DptHasDepth /\ ~Cached(DBT) /\ ~DbsHasDepth /\ DbkHasDepth) =>
               data.depth = [meters |-> packets[DBK].depthMeters.value, source |-> "DBK"]
        /\ (~DptHasDepth /\ ~Cached(DBT) /\ ~DbsHasDepth /\ ~DbkHasDepth) =>
               data.depth = Null

\* DPT with a depth is cached next to DBT, DBS and DBK with other depths, and
\* the depth is the DPT's.
C21_Witness ==
    /\ Applied
    /\ DptHasDepth
    /\ Cached(DBT)
    /\ DbsHasDepth
    /\ DbkHasDepth
    /\ packets[DBT].depthMeters # packets[DPT].depthMeters.value
    /\ data.depth = [meters |-> packets[DPT].depthMeters.value, source |-> "DPT"]

\* A derived field is null or a record tagged with one of its sources.
IsField(value, sources) ==
    \/ value = Null
    \/ "source" \in DOMAIN value /\ value.source \in sources

\* A NavigationData snapshot: the five fields, each null or a tagged record.
IsSnapshot(d) ==
    /\ DOMAIN d = {"time", "position", "speed", "heading", "depth"}
    /\ IsField(d.time, {"ZDA", "GGA", "RMC", "GLL"})
    /\ IsField(d.position, {"GGA", "RMC", "GLL"})
    /\ IsField(d.speed, {"VTG", "RMC"})
    /\ IsField(d.heading, {"HDT", "HDG", "COG"})
    /\ IsField(d.depth, {"DPT", "DBT", "DBS", "DBK"})

\* C22: the navigation derivation is total: for every cache (any subset of
\* the allowed sentence ids present, the empty cache included)
\* computeNavigationData returns a snapshot without raising, and for the
\* empty cache all five fields are null, equal to the configured initial
\* navigation data.
C22_DerivationIsTotal ==
    Applied =>
        /\ DOMAIN packets \subseteq
               {NAVIGATION_SENTENCE_IDS[i] : i \in DOMAIN NAVIGATION_SENTENCE_IDS}
        /\ IsSnapshot(data)
        /\ packets = initialNavigationPackets =>
               /\ data = initialNavigationData
               /\ \A f \in DOMAIN data : data[f] = Null

\* The adapter has been applied to the empty cache.
C22_Witness ==
    /\ Applied
    /\ packets = initialNavigationPackets
    /\ data = initialNavigationData

\* The cache entries each derived field is computed from.
FieldInputs ==
    [time |-> {ZDA, GGA, RMC, GLL}, position |-> {GGA, RMC, GLL},
     speed |-> {VTG, RMC}, heading |-> {HDT, HDG, RMC, VTG},
     depth |-> {DPT, DBT, DBS, DBK}]

NavigationIds == {NAVIGATION_SENTENCE_IDS[i] : i \in DOMAIN NAVIGATION_SENTENCE_IDS}

\* One packet of each sentence id.
PacketOf ==
    [id \in NavigationIds |->
        CHOOSE p \in UNION {NavigationPackets[f] : f \in DOMAIN NavigationPackets} :
            p.sentenceId = id]

\* The entries of a cache under a set of ids.
Restrict(cache, ids) == [id \in DOMAIN cache \cap ids |-> cache[id]]

\* Caches that agree with `cache` on `inputs`: its other entries dropped,
\* then one other entry present, or all others present.
Agreeing(cache, inputs) ==
    LET kept == Restrict(cache, inputs)
        others == NavigationIds \ inputs
    IN  {[id \in DOMAIN kept \cup present |->
             IF id \in present THEN PacketOf[id] ELSE kept[id]] :
                present \in {{}, others} \cup {{o} : o \in others}}

-----------------------------------------------------------------------------
(* Further properties of the machine (specification Spec) *)

\* The disconnect action: the only step that resets the context.
ContextReset == state = "disconnecting" /\ state' = "disconnected"

\* C24: there is no eviction or expiry.  On every step other than the reset
\* on disconnect, whatever the event (SERIAL.ERROR, SET_LOGGING, a filtered
\* packet, ...), each cache entry stays in the cache, so the set of cached
\* ids only grows, and an entry changes only when an accepted packet of the
\* same id, handled in connected, replaces it.
C24_NoEviction ==
    [][~ContextReset =>
          \A id \in DOMAIN packets :
              /\ id \in DOMAIN packets'
              /\ \/ packets'[id] = packets[id]
                 \/ /\ state = "connected"
                    /\ state' = "connected"
                    /\ Accepts(id)
                    /\ lastEvent' = "SERIAL.DATA replaced"
                    /\ packets'[id] \in DataPackets
                    /\ packets'[id].sentenceId = id]_vars

\* Two entries accepted in this session are still cached after a parse
\* error was reported and the logging was switched on.
C24_Witness ==
    /\ state = "connected"
    /\ lastEvent = "SET_LOGGING"
    /\ error \in SerialErrorMessages
    /\ Cardinality(DOMAIN packets) >= 2
    /\ packets = session

\* The message of a failed connection attempt.
FailureMessage(e) == IF e.message # "" THEN e.message ELSE "Failed to connect."

\* C25: the machine is in the error state only after a failed connection
\* attempt or a FATAL_ERROR received while connected, and in the error state
\* context.error is non-null and equals the message of the failure that
\* caused the entry: the thrown error's message, or 'Failed to connect.'
\* when that message is empty; the FATAL_ERROR event's error string.
C25_ErrorStateHasItsCause ==
    /\ [](state = "error" => error # null)
    /\ [][(state' = "error" /\ state # "error") =>
             \/ /\ state = "connecting"
                /\ \E e \in ConnectFailures :
                      /\ Receive([type |-> "xstate.error.actor.connectToSerial",
                                  error |-> e])
                      /\ error' = FailureMessage(e)
             \/ /\ state = "connected"
                /\ lastEvent' = "FATAL_ERROR"
                /\ error' \in FatalErrorMessages]_vars
    /\ [][(state = "error" /\ state' = "error") => error' = error]_vars

\* In the error state after connectToSerial threw an error with an empty
\* message.
C25_Witness ==
    /\ state = "error"
    /\ lastEvent = "xstate.error.actor.connectToSerial"
    /\ error = "Failed to connect."

\* C26: connected is entered only when the connectToSerial actor completes
\* successfully, and then context.port is the opened port and context.error
\* is null; in every state where the machine is connected context.port is
\* non-null, so the stream reader is always started with a port.
C26_ConnectedHasPort ==
    /\ [](state = "connected" => port # null /\ port \in Ports)
    /\ [][(state' = "connected" /\ state # "connected") =>
             /\ state = "connecting"
             /\ \E p \in Ports :
                   /\ Receive([type |-> "xstate.done.actor.connectToSerial",
                               output |-> p])
                   /\ port' = p
                   /\ error' = null
                   /\ streamReader' = "reading"]_vars

\* Connected again after a fatal error: the cache of the failed session is
\* still there, the error it left is cleared and the port is set.
C26_Witness ==
    /\ state = "connected"
    /\ lastEvent = "xstate.done.actor.connectToSerial"
    /\ packets # initialPackets
    /\ error = null
    /\ port \in Ports

-----------------------------------------------------------------------------
(* Disconnecting (specification SpecFair) *)

\* The context after the disconnect action.
IsReset ==
    /\ port = null
    /\ error = null
    /\ packets = initialPackets
    /\ data = initialData

\* C27: DISCONNECT handled in connected does not itself change the machine
\* state (nor the context) but sends STOP to the stream reader; when the
\* reader acknowledges STOP with SERIAL.DISCONNECTED and closePort completes,
\* the machine eventually reaches disconnected, through disconnecting, with
\* port null, error null and packets and data reset to their initial values.
C27_DisconnectReachesDisconnected ==
    /\ [][(state = "connected" /\ Receive(DisconnectEvent)) =>
             /\ state' = "connected"
             /\ streamReader' = "stopping"
             /\ <<port, error, packets, data, enableLogging, baudRate>>' =
                   <<port, error, packets, data, enableLogging, baudRate>>]_vars
    /\ [][(state = "connected" /\ streamReader = "stopping"
                /\ state' # "connected") => state' = "disconnecting"]_vars
    /\ [][(state # "disconnected" /\ state' = "disconnected") =>
             state = "disconnecting"]_vars
    /\ (state = "connected" /\ streamReader = "stopping")
           ~> (state = "disconnected" /\ IsReset)

\* DISCONNECT has just been handled in connected with packets cached: the
\* machine is still connected, the reader is stopping.
C27_Witness ==
    /\ state = "connected"
    /\ lastEvent = "DISCONNECT"
    /\ streamReader = "stopping"
    /\ port # null
    /\ packets # initialPackets

-----------------------------------------------------------------------------
(* The baud rate (specification Spec) *)

\* connecting.invoke.input: what connectToSerial opens the port with.
connectToSerialInput(context) == [baudRate |-> context.baudRate]

MachineStates ==
    {"disconnected", "connecting", "connected", "disconnecting", "error"}

\* C28: setBaudRate(b) sets the baud rate in whatever state the machine is
\* (disconnected, connecting, connected, disconnecting or error): handling
\* SET_BAUD_RATE makes context.baudRate b, and a connection attempt started
\* next opens the port at b, the most recently set rate.
C28_BaudRateSetInEveryState ==
    /\ state \in MachineStates
    /\ \A b \in BaudRates :
          LET set == transition(state, Context, SetBaudRateEvent(b))
              attempt == transition(set.value, set.context, ConnectEvent)
          IN  /\ set.context.baudRate = b
              /\ attempt.value = "connecting" =>
                    connectToSerialInput(attempt.context).baudRate = b

-----------------------------------------------------------------------------
(* The client (specification SpecClient) *)

IsConnected(value) == value = "connected"

\* C29: the client's callbacks fire on change.  For every snapshot handed to
\* the subscriber: onData is called when context.data has been updated,
\* onStateChange when connected-versus-not has changed, and a notification
\* that changes neither (SET_LOGGING, SET_BAUD_RATE, SERIAL.ERROR while
\* connected) invokes neither onData nor onStateChange.
C29_CallbacksFireOnChange ==
    [][(status' = "active" /\ subscription' # null
            /\ lastEvent' # "readLoop continue") =>
          /\ data' # data => called'.onData = Defined(data')
          /\ IsConnected(state') # IsConnected(state) =>
                called'.onStateChange = Defined(IsConnected(state'))
          /\ (data' = data /\ IsConnected(state') = IsConnected(state)) =>
                /\ called'.onData = Undefined
                /\ called'.onStateChange = Undefined]_vars

\* C30: dispose() cleans up and stops the machine.  On a disposed client the
\* actor's status is stopped, the subscription is removed, its invoked actors
\* are stopped and no callback is invoked; whatever is sent or happens
\* afterwards (connect, disconnect, setLogging, setBaudRate, a second
\* dispose) changes neither the state nor the context nor anything else.
C30_DisposeStops ==
    /\ [](status = "stopped" =>
             /\ subscription = null
             /\ streamReader = "none"
             /\ called = NoCalls)
    /\ [][status = "stopped" =>
             /\ status' = "stopped"
             /\ state' = state
             /\ <<port, error, packets, data, enableLogging, baudRate>>' =
                   <<port, error, packets, data, enableLogging, baudRate>>
             /\ called' = NoCalls]_vars

\* A client disposed of while connected, with packets cached.
C30_Witness ==
    /\ status = "stopped"
    /\ lastEvent = "dispose"
    /\ subscription = null
    /\ state = "connected"
    /\ packets # initialPackets

-----------------------------------------------------------------------------
(* The line splitter (specification SpecLines) *)

\* Where the terminators (carriage return, line feed) of a text start.
Terminators(t) == {i \in 1..(Len(t) - 1) : t[i] = "\r" /\ t[i + 1] = "\n"}

\* The segment of t that the terminator at i ends.
SegmentBefore(t, i) ==
    LET before == {j \in Terminators(t) : j < i}
        from == IF before = {} THEN 1
                ELSE (CHOOSE j \in before : \A k \in before : k <= j) + 2
    IN  SubSeq(t, from, i - 1)

\* The non-empty terminator-delimited segments of t, in order.
SegmentsOf(t) ==
    LET ends == {i \in Terminators(t) : SegmentBefore(t, i) # <<>>}
    IN  [k \in 1..Cardinality(ends) |->
            SegmentBefore(t, CHOOSE i \in ends :
                                Cardinality({j \in ends : j < i}) = k - 1)]

\* The text after the last terminator of t.
FragmentOf(t) ==
    IF Terminators(t) = {} THEN t
    ELSE SubSeq(t, (CHOOSE j \in Terminators(t) :
                       \A k \in Terminators(t) : k <= j) + 2, Len(t))

\* The part of the text the transformer has been handed so far.
Consumed ==
    SubSeq(lineStream.text, 1, Len(lineStream.text) - Len(lineStream.rest))

C32_NoEmptyLineNoFragment ==
    /\ \A k \in DOMAIN lineStream.lines : lineStream.lines[k] # <<>>
    /\ ~lineStream.closed => lineStream.container = FragmentOf(Consumed)
    /\ lineStream.closed =>
          /\ lineStream.container = <<>>
          /\ Len(lineStream.lines) = Cardinality({i \in Terminators(lineStream.text) :
                                         SegmentBefore(lineStream.text, i) # <<>>})

\* The stream closed on a text that ends in an unterminated fragment, after
\* a line had been emitted.
C32_Witness ==
    /\ lineStream.closed
    /\ FragmentOf(lineStream.text) # <<>>
    /\ lineStream.lines # <<>>
    /\ lineStream.container = <<>>

-----------------------------------------------------------------------------
(* The states in which events are handled (specification Spec) *)

\* The events the stream reader sends back.
SerialEvents ==
    {SerialData(p) : p \in DataPackets}
    \cup {SerialError(e) : e \in SerialErrorMessages}
    \cup {FatalError(e) : e \in FatalErrorMessages}
    \cup {SerialDisconnected}

\* C33: SERIAL.DATA, SERIAL.ERROR, FATAL_ERROR and SERIAL.DISCONNECTED are
\* handled only in connected: received in disconnected, connecting,
\* disconnecting or error they leave the machine state and the whole context
\* (port, error, packets, data, enableLogging, baudRate) unchanged.
C33_SerialEventsOnlyInConnected ==
    \A ev \in SerialEvents :
        LET to == transition(state, Context, ev)
        IN  IF state = "connected"
            THEN to.taken
            ELSE /\ ~to.taken
                 /\ to.value = state
                 /\ to.context = Context
                 /\ ~to.stop

\* In the error state with a port, a cache and an error in the context,
\* where the owner of the actor may send any serial event.
C33_Witness ==
    /\ state = "error"
    /\ error \in FatalErrorMessages
    /\ port # null
    /\ packets # initialPackets
    /\ ENABLED SendSerialEvent

\* C34: at most one connection attempt and at most one stream reader exist
\* at any time.  CONNECT is accepted only in disconnected and error (where it
\* starts the one attempt of connecting) and ignored in connecting, connected
\* and disconnecting; a stream reader is running exactly when the machine is
\* in connected, so it is stopped on every exit from connected.
C34_OneAttemptOneReader ==
    /\ LET to == transition(state, Context, ConnectEvent)
       IN  IF state \in {"disconnected", "error"}
           THEN to.taken /\ to.value = "connecting" /\ to.context = Context
           ELSE ~to.taken /\ to.value = state /\ to.context = Context
    /\ streamReader \in {"none", "reading", "stopping"}
    /\ streamReader # "none" <=> state = "connected"

\* A second session: connected again with the cache of a session that ended
\* in a fatal error, and a new reader reading.
C34_Witness ==
    /\ state = "connected"
    /\ streamReader = "reading"
    /\ session = initialPackets
    /\ packets # initialPackets

\* C35: every serial port opened by a successful connection is released
\* before the machine connects again.  closePort is invoked only by the
\* disconnecting state and context.port is reset to null only by the
\* disconnect action that follows it, so whenever connectToSerial is invoked
\* (the machine is in connecting) the port of the last session has been
\* closed and context.port is null, on every path, the one through
\* FATAL_ERROR and the error state included.
C35_PortReleasedBeforeReconnect ==
    state = "connecting" => port = null

\* C36: every SERIAL.DATA handled in connected sets context.error to null,
\* whether the packet is stored or filtered out by the allow-list; so an
\* error recorded by SERIAL.ERROR persists exactly until the next
\* SERIAL.DATA (null), FATAL_ERROR (the fatal message), SERIAL.ERROR or the
\* reset on disconnect, whatever else happens in between.
C36_DataClearsError ==
    /\ [](state = "connected" =>
             \A p \in DataPackets :
                 transition(state, Context, SerialData(p)).context.error = null)
    /\ [][(error \in SerialErrorMessages /\ error' # error) =>
             \/ lastEvent' \in DataLabels /\ state' = "connected" /\ error' = null
             \/ lastEvent' = "FATAL_ERROR" /\ error' \in FatalErrorMessages
             \/ lastEvent' = "SERIAL.ERROR" /\ error' \in SerialErrorMessages
             \/ ContextReset /\ error' = null]_vars

\* A packet has just been filtered out by the allow-list while an error
\* reported earlier in the session could have been set: the error is null.
C36_Witness ==
    /\ state = "connected"
    /\ lastEvent = "SERIAL.DATA filtered"
    /\ ListConfigured
    /\ error = null
    /\ session # initialPackets

\* C37: when the read loop fails with a stream error before any STOP, the
\* reader sends FATAL_ERROR and then SERIAL.DISCONNECTED: the machine moves
\* to error on FATAL_ERROR with context.error the fatal message, the trailing
\* SERIAL.DISCONNECTED is ignored, and the machine stays in error with that
\* error until a CONNECT is received; it reaches neither disconnecting nor
\* disconnected on this path.
C37_FatalErrorStaysInError ==
    /\ [][(streamReader = "reading" /\ ReadFatal) =>
             /\ state' = "error"
             /\ error' \in FatalErrorMessages
             /\ streamReader' = "none"
             /\ <<port, packets, data>>' = <<port, packets, data>>]_vars
    /\ [](state = "error" =>
             ~transition(state, Context, SerialDisconnected).taken)
    /\ [][state = "error" =>
             /\ error' = error
             /\ \/ state' = "error"
                \/ state' = "connecting" /\ lastEvent' = "CONNECT"]_vars

\* In the error state after the read loop of a session with packets failed.
C37_Witness ==
    /\ state = "error"
    /\ lastEvent = "FATAL_ERROR"
    /\ error \in FatalErrorMessages
    /\ streamReader = "none"
    /\ session # initialPackets
    /\ packets = session

=============================================================================
